---------------------------- MODULE Spec2Model ----------------------------
(***************************************************************************)
(* A model of my-redis: the shared state engine of db.rs (key/value store, *)
(* TTL index, pub/sub registry, background purge task) and the RESP frame  *)
(* codec of frame.rs / connection.rs.                                      *)
(*                                                                         *)
(* Every Db method holds the std::sync::Mutex for its whole critical       *)
(* section and never awaits while holding it, so a critical section is one *)
(* atomic step and every state of the model is a state in which the mutex  *)
(* is free.  What a method does after releasing the mutex (notify_one) is  *)
(* a step of its own.                                                      *)
(*                                                                         *)
(* The server of server.rs and the subscribe mode of cmd/subscribe.rs are  *)
(* tasks that interleave at their suspension points (.await): what a task  *)
(* does between two suspension points is one step.                         *)
(***************************************************************************)
EXTENDS Integers, Sequences, FiniteSets, TLC

(***************************************************************************)
(* Bounds of the model.                                                    *)
(***************************************************************************)
\* The clock (tokio Instant) runs from 0 to MaxTime.
MaxTime == 2
\* Number of threads calling into the Db (handler tasks, the guard's owner).
NumCallers == 1
\* Number of broadcast::Receiver handles that can be alive at once.
MaxRx == 2
\* Semaphore::new(MAX_CONNECTIONS): the number of permits, scaled down from
\* the 250 of server.rs.
MAX_CONNECTIONS == 2
\* Number of connections that clients open in all.
NumConns == 3
\* Number of commands a client sends on one connection: when the commands
\* are studied, and when the server's listener and shutdown are.
MaxReq == 2
SrvMaxReq == 1
\* Number of commands the subscriber sends when subscribe mode is studied.
SubMaxReq == 3
\* Number of consecutive failures of TcpListener::accept: the seven tiers
\* of 1 to 64 seconds and one more.
MaxFails == 8

Keys == {"k1", "k2"}
\* The String order of the keys (the second component of the BTreeSet pairs).
KeySeq == <<"k1", "k2">>
Values == {"v1", "v2"}
Channels == {"c1", "c2"}
\* The channels, keys, values and durations used by the environment of each
\* specification: Spec exercises the key/value store with one subscriber,
\* SpecPubSub the pub/sub registry with one key.
KvChannels == {"c1"}
PsKeys == {"k1"}
PsValues == {"v1"}
PsDurations == {1}
Msgs == {"m1"}
\* Option<Duration> arguments of Db::set, in clock ticks.
Durations == {1, 2}

\* Option<T>: None is the empty sequence, Some(x) the one-element sequence.
None == <<>>
Some(x) == <<x>>
Options(S) == {None} \cup {Some(x) : x \in S}

VARIABLES
    entries,          \* State.entries: key -> Entry [data, expires_at]
    pub_sub,          \* State.pub_sub: channel -> broadcast::Sender [rx_cnt]
    expirations,      \* State.expirations: set of <<when, key>>
    shutdown,         \* State.shutdown
    background_task,  \* Shared.background_task: the permit a Notify stores
    now,              \* the clock read by Instant::now()
    worker,           \* purge_expired_tasks: [pc, when]
    notifying,        \* callers between drop(state) and notify_one
    receivers,        \* live broadcast::Receiver handles: id -> channel
    ret,              \* the last Db call: its name, argument and return value
                      \* (set: the deadline of the entry it replaced; publish:
                      \* also the receivers alive at the send)
    setLog,           \* per key, the arguments of the last Db::set on it
    frame,            \* the Frame handed to Connection::write_frame, if any
    buf,              \* the bytes on the wire (written, or sent by a peer)
    writeRes,         \* the result of Connection::write_frame
    checkRes,         \* the result of Frame::check on buf
    parseRes,         \* the result of Frame::parse on buf
    decimal,          \* a call of Connection::write_decimal: [val, ctx,
                      \* res]; val is the u64 as its decimal digits, ctx
                      \* the frame it is written for, res the result
    conn,             \* a Connection that is read: [buffer, stream, peer,
                      \* got, pc]; stream is what the socket has yet to
                      \* hand over, peer what the peer sent in all, got
                      \* the results of the read_frame calls so far
    server,           \* server::run: [pc, signal]
    listener,         \* Listener::run and accept: [pc, backoff, fails]
    permits,          \* free permits of Listener.limit_connections
    handlers,         \* the Handler task of each connection
    rxq,              \* per broadcast::Receiver, the messages sent to it and
                      \* not yet received
    sent,             \* per broadcast::Receiver, the messages published to
                      \* its channel since its connection received the
                      \* subscribe-ack and stayed subscribed (history, for
                      \* the properties)
    heard             \* per broadcast::Receiver, the messages published to
                      \* its channel since Db::subscribe returned it
                      \* (history, for the properties)

dbVars == <<entries, pub_sub, expirations, shutdown, background_task, now,
            worker, notifying, receivers, ret, setLog>>

codecVars == <<frame, buf, writeRes, checkRes, parseRes, decimal, conn>>

srvVars == <<server, listener, permits, handlers, rxq, sent, heard>>

vars == <<dbVars, codecVars, srvVars>>

----------------------------------------------------------------------------
(***************************************************************************)
(* db.rs                                                                   *)
(***************************************************************************)

KeyRank(k) == CHOOSE i \in 1..Len(KeySeq) : KeySeq[i] = k

\* (Instant, String) tuple order of the BTreeSet.
PairLeq(p, q) == p[1] < q[1] \/ (p[1] = q[1] /\ KeyRank(p[2]) <= KeyRank(q[2]))

\* expirations.iter().next(): the smallest pair of a non-empty set.
FirstExpiration(exps) == CHOOSE p \in exps : \A q \in exps : PairLeq(p, q)

\* State::next_expiration
NextExpiration(exps) ==
    IF exps = {} THEN None ELSE Some(FirstExpiration(exps)[1])

\* Db::get: state.entries.get(key).map(|entry| entry.data.clone())
DbGet(ents, key) ==
    IF key \in DOMAIN ents THEN Some(ents[key].data) ELSE None

\* A mutant of SetEntries: an occupied key keeps its entry (or_insert).
SetEntriesKeepOld(ents, key, value, expires_at) ==
    IF key \in DOMAIN ents THEN ents
    ELSE [k \in DOMAIN ents \cup {key} |->
            IF k = key THEN [data |-> value, expires_at |-> expires_at]
            ELSE ents[k]]

\* Db::set, state.entries.insert(key, Entry {data, expires_at})
SetEntries(ents, key, value, expires_at) ==
    [k \in DOMAIN ents \cup {key} |->
        IF k = key THEN [data |-> value, expires_at |-> expires_at]
        ELSE ents[k]]

\* A mutant of SetExpirations: the new deadline is tracked, the pair of
\* the replaced entry is left behind.
SetExpirationsInsertKeepPrev(exps, prev, key, expires_at) ==
    IF expires_at # None THEN exps \cup {<<expires_at[1], key>>} ELSE exps

\* A mutant of SetExpirations: the new deadline is tracked and the pair of
\* the replaced entry is removed only when the new entry has no deadline.
SetExpirationsInsertElseRemove(exps, prev, key, expires_at) ==
    IF expires_at # None THEN exps \cup {<<expires_at[1], key>>}
    ELSE IF prev # None /\ prev[1].expires_at # None
         THEN exps \ {<<prev[1].expires_at[1], key>>}
         ELSE exps

\* A mutant of SetExpirations: the pair of the replaced entry stays.
SetExpirationsLeavePair(exps, prev, key, expires_at) == exps

\* Db::set, the expirations after the insert: prev is the Option<Entry> that
\* entries.insert returned.  The pair of the replaced entry is removed; no
\* pair is inserted for the new entry.
SetExpirations(exps, prev, key, expires_at) ==
    IF prev # None /\ prev[1].expires_at # None
    THEN exps \ {<<prev[1].expires_at[1], key>>}
    ELSE exps

\* A mutant of SetNotify: a deadline equal to the earliest one notifies too
\* (expiration >= when).
SetNotifyNotStrict(exps, expire, when) ==
    IF expire = None THEN FALSE
    ELSE IF NextExpiration(exps) = None THEN TRUE
         ELSE NextExpiration(exps)[1] >= when

\* Db::set, the notify flag: computed only when the call carries an expiry.
SetNotify(exps, expire, when) ==
    IF expire = None THEN FALSE
    ELSE IF NextExpiration(exps) = None THEN TRUE
         ELSE NextExpiration(exps)[1] > when

\* Db::set(key, value, expire), up to and including drop(state).  With
\* notify set the caller still owes background_task.notify_one().
Set(key, value, expire) ==
    LET when == IF expire = None THEN 0 ELSE now + expire[1]
        expires_at == IF expire = None THEN None ELSE Some(when)
        notify == SetNotify(expirations, expire, when)
        prev == IF key \in DOMAIN entries THEN Some(entries[key]) ELSE None
    IN  /\ notifying < NumCallers
        /\ entries' = SetEntries(entries, key, value, expires_at)
        /\ expirations' = SetExpirations(expirations, prev, key, expires_at)
        /\ notifying' = IF notify THEN notifying + 1 ELSE notifying
        /\ ret' = [op |-> "set", arg |-> key,
                   val |-> IF prev = None THEN None
                           ELSE Some(prev[1].expires_at)]
        /\ setLog' = [setLog EXCEPT ![key] =
                        Some([value |-> value, expires_at |-> expires_at])]
        /\ UNCHANGED <<codecVars, srvVars>>
        /\ UNCHANGED <<pub_sub, shutdown, background_task, now, worker,
                       receivers>>

\* background_task.notify_one(), by a caller of set or shutdown_purge_task
\* that has released the mutex: the Notify stores one permit.
NotifyOne ==
    /\ notifying > 0
    /\ notifying' = notifying - 1
    /\ background_task' = TRUE
    /\ UNCHANGED <<codecVars, srvVars>>
    /\ UNCHANGED <<entries, pub_sub, expirations, shutdown, now, worker,
                   receivers, ret, setLog>>

\* Db::get(key)
Get(key) ==
    /\ notifying < NumCallers
    /\ ret' = [op |-> "get", arg |-> key, val |-> DbGet(entries, key)]
    /\ UNCHANGED <<codecVars, srvVars>>
    /\ UNCHANGED <<entries, pub_sub, expirations, shutdown, background_task,
                   now, worker, notifying, receivers, setLog>>

NoRx == "none"
RxIds == 1..MaxRx
FreeRx == {r \in RxIds : receivers[r] = NoRx}

\* The receivers attached to a channel and not yet dropped.
LiveReceivers(ch) == {r \in RxIds : receivers[r] = ch}

\* A mutant of SubscribePubSub: the sender is replaced by a new channel on
\* every subscribe (insert instead of entry).
SubscribePubSubReplace(ps, ch) ==
    [c \in DOMAIN ps \cup {ch} |-> IF c = ch THEN [rx_cnt |-> 1] ELSE ps[c]]

\* Db::subscribe(key): Sender::subscribe on an occupied entry, or
\* broadcast::channel(1024) on a vacant one (one receiver, sender inserted).
SubscribePubSub(ps, ch) ==
    [c \in DOMAIN ps \cup {ch} |->
        IF c = ch
        THEN [rx_cnt |-> IF ch \in DOMAIN ps THEN ps[ch].rx_cnt + 1 ELSE 1]
        ELSE ps[c]]

Subscribe(ch) ==
    /\ notifying < NumCallers
    /\ FreeRx # {}
    /\ LET r == CHOOSE x \in FreeRx : \A y \in FreeRx : x <= y
       IN  receivers' = [receivers EXCEPT ![r] = ch]
    /\ pub_sub' = SubscribePubSub(pub_sub, ch)
    /\ ret' = [op |-> "subscribe", arg |-> ch, val |-> None]
    /\ UNCHANGED <<codecVars, srvVars>>
    /\ UNCHANGED <<entries, expirations, shutdown, background_task, now,
                   worker, notifying, setLog>>

\* Drop of a broadcast::Receiver (unsubscribe, or the handler returning):
\* the sender's receiver count goes down by one.
DropReceiver(r) ==
    /\ receivers[r] # NoRx
    /\ receivers' = [receivers EXCEPT ![r] = NoRx]
    /\ pub_sub' = [pub_sub EXCEPT ![receivers[r]].rx_cnt = @ - 1]
    /\ UNCHANGED <<codecVars, srvVars>>
    /\ UNCHANGED <<entries, expirations, shutdown, background_task, now,
                   worker, notifying, ret, setLog>>

\* A mutant of SendCount: the count of every sender of the registry.
SendCountAllChannels(ps, ch) ==
    IF ch \in DOMAIN ps
    THEN LET RECURSIVE Sum(_)
             Sum(S) == IF S = {} THEN 0
                       ELSE LET c == CHOOSE x \in S : TRUE
                            IN  ps[c].rx_cnt + Sum(S \ {c})
         IN  Sum(DOMAIN ps)
    ELSE 0

\* Db::publish: pub_sub.get(key).map(|tx| tx.send(value).unwrap_or(0))
\* .unwrap_or(0).  Sender::send fails when rx_cnt is 0 and returns
\* Ok(rx_cnt) otherwise.
SendCount(ps, ch) ==
    IF ch \in DOMAIN ps
    THEN (IF ps[ch].rx_cnt = 0 THEN 0 ELSE ps[ch].rx_cnt)
    ELSE 0

Publish(ch, msg) ==
    /\ notifying < NumCallers
    /\ ret' = [op |-> "publish", arg |-> ch,
               val |-> Some(SendCount(pub_sub, ch)),
               live |-> Cardinality(LiveReceivers(ch))]
    /\ UNCHANGED <<codecVars, srvVars>>
    /\ UNCHANGED <<entries, pub_sub, expirations, shutdown, background_task,
                   now, worker, notifying, receivers, setLog>>

\* Db::shutdown_purge_task (Drop for DbDropGuard), up to drop(state); the
\* caller still owes notify_one.  The one DbDropGuard of the server is
\* dropped once, so the call happens while shutdown is still false.
ShutdownPurgeTask ==
    /\ notifying < NumCallers
    /\ ~shutdown
    /\ shutdown' = TRUE
    /\ notifying' = notifying + 1
    /\ ret' = [op |-> "shutdown", arg |-> "", val |-> None]
    /\ UNCHANGED <<codecVars, srvVars>>
    /\ UNCHANGED <<entries, pub_sub, expirations, background_task, now,
                   worker, receivers, setLog>>

\* A mutant of PurgeLoop: a pair whose deadline equals now is kept
\* (when >= now).
RECURSIVE PurgeLoopKeepDue(_, _, _)
PurgeLoopKeepDue(ents, exps, t) ==
    IF exps = {} THEN [entries |-> ents, expirations |-> exps, ret |-> None]
    ELSE LET first == FirstExpiration(exps)
         IN  IF first[1] >= t
             THEN [entries |-> ents, expirations |-> exps,
                   ret |-> Some(first[1])]
             ELSE PurgeLoopKeepDue([k \in DOMAIN ents \ {first[2]} |-> ents[k]],
                                   exps \ {first}, t)

\* Shared::purge_expired_keys, the while loop: pops the first pair while its
\* deadline is not after now, removing the entry of its key.
RECURSIVE PurgeLoop(_, _, _)
PurgeLoop(ents, exps, t) ==
    IF exps = {} THEN [entries |-> ents, expirations |-> exps, ret |-> None]
    ELSE LET first == FirstExpiration(exps)
         IN  IF first[1] > t
             THEN [entries |-> ents, expirations |-> exps,
                   ret |-> Some(first[1])]
             ELSE PurgeLoop([k \in DOMAIN ents \ {first[2]} |-> ents[k]],
                            exps \ {first}, t)

\* Shared::purge_expired_keys
PurgeExpiredKeys(ents, exps, sd, t) ==
    IF sd THEN [entries |-> ents, expirations |-> exps, ret |-> None]
    ELSE PurgeLoop(ents, exps, t)

\* A mutant of IsShutdown: the flag is never seen.
IsShutdownNever(sd) == FALSE

\* Shared::is_shutdown
IsShutdown(sd) == sd

\* One step of the background task purge_expired_tasks.
\*   "loop":   the test of while !shared.is_shutdown()
\*   "purge":  shared.purge_expired_keys(); on None the else branch is
\*             empty and the task goes straight back to the loop test
\*   "select": sleep_until(when) or background_task.notified(), whichever
\*             is ready (either when both are)
PurgeExpiredTasks ==
    /\ worker.pc # "done"
    /\ IF worker.pc = "loop"
       THEN /\ worker' = [worker EXCEPT !.pc = IF IsShutdown(shutdown)
                                                 THEN "done" ELSE "purge"]
            /\ UNCHANGED <<entries, expirations, background_task>>
       ELSE IF worker.pc = "purge"
       THEN LET p == PurgeExpiredKeys(entries, expirations, shutdown, now)
            IN  /\ entries' = p.entries
                /\ expirations' = p.expirations
                /\ worker' = [pc |-> IF p.ret = None THEN "loop" ELSE "select",
                              when |-> p.ret]
                /\ UNCHANGED background_task
       ELSE /\ worker.pc = "select"
            /\ \E branch \in {"sleep", "notified"} :
                  IF branch = "sleep"
                  THEN now >= worker.when[1] /\ UNCHANGED background_task
                  ELSE background_task /\ background_task' = FALSE
            /\ worker' = [pc |-> "loop", when |-> None]
            /\ UNCHANGED <<entries, expirations>>
    /\ UNCHANGED <<codecVars, srvVars>>
    /\ UNCHANGED <<pub_sub, shutdown, now, notifying, receivers, ret, setLog>>

\* The clock advances.
Tick ==
    /\ now < MaxTime
    /\ now' = now + 1
    /\ UNCHANGED <<codecVars, srvVars>>
    /\ UNCHANGED <<entries, pub_sub, expirations, shutdown, background_task,
                   worker, notifying, receivers, ret, setLog>>

----------------------------------------------------------------------------
(***************************************************************************)
(* frame.rs and connection.rs: the codec.  A byte is its value 0..255, a   *)
(* buffer a sequence of bytes, a cursor position the number of bytes       *)
(* consumed (Cursor::position).                                            *)
(***************************************************************************)

\* The tag bytes b'+', b'-', b':', b'$', b'*' and the terminator b"\r\n".
Plus == 43
Minus == 45
Colon == 58
Dollar == 36
Star == 42
CR == 13
LF == 10

\* A Frame is [tag, bytes, num, elems]: the text or payload of a Simple,
\* Error or Bulk, the number of an Integer, the elements of an Array; the
\* fields a variant does not have are empty or 0.
Simple(text) == [tag |-> "Simple", bytes |-> text, num |-> 0, elems |-> <<>>]
Error(text) == [tag |-> "Error", bytes |-> text, num |-> 0, elems |-> <<>>]
Integer(n) == [tag |-> "Integer", bytes |-> <<>>, num |-> n, elems |-> <<>>]
Bulk(data) == [tag |-> "Bulk", bytes |-> data, num |-> 0, elems |-> <<>>]
Null == [tag |-> "Null", bytes |-> <<>>, num |-> 0, elems |-> <<>>]
Array(es) == [tag |-> "Array", bytes |-> <<>>, num |-> 0, elems |-> es]

\* Results: Ok, Incomplete (frame::Error::Incomplete), Other
\* (frame::Error::Other, or an io::Error when writing), Panic.
Res(r, pos, f) == [res |-> r, pos |-> pos, frame |-> f]
\* The result of a function that returns no frame (check, skip).
Chk(r, pos) == [res |-> r, pos |-> pos]

\* The slice buf[from..to] of a buffer (0-based, to excluded).
Slice(b, from, to) == SubSeq(b, from + 1, to)

\* get_line: the index of the first "\r\n" at or after start, searched over
\* start..len-1, or -1.
RECURSIVE FindCrLf(_, _)
FindCrLf(b, i) ==
    IF i >= Len(b) - 1 THEN -1
    ELSE IF b[i + 1] = CR /\ b[i + 2] = LF THEN i
    ELSE FindCrLf(b, i + 1)

\* get_line: the line and the position after its terminator.
GetLine(b, pos) ==
    LET i == FindCrLf(b, pos)
    IN  IF i < 0 THEN [res |-> "Incomplete", pos |-> pos, line |-> <<>>]
        ELSE [res |-> "Ok", pos |-> i + 2, line |-> Slice(b, pos, i)]

IsDigit(c) == 48 <= c /\ c <= 57

\* The decimal digits of 2^64 - 1, the largest u64.
U64MaxDigits == <<1, 8, 4, 4, 6, 7, 4, 4, 0, 7, 3, 7, 0, 9, 5, 5, 1, 6, 1, 5>>

\* The leading digits of a line.
RECURSIVE LeadingDigits(_)
LeadingDigits(line) ==
    IF line = <<>> \/ ~IsDigit(Head(line)) THEN <<>>
    ELSE <<Head(line) - 48>> \o LeadingDigits(Tail(line))

RECURSIVE StripZeros(_)
StripZeros(ds) ==
    IF ds # <<>> /\ Head(ds) = 0 THEN StripZeros(Tail(ds)) ELSE ds

\* Lexicographic ds > es for digit strings of equal length.
RECURSIVE DigitsGreater(_, _)
DigitsGreater(ds, es) ==
    IF ds = <<>> THEN FALSE
    ELSE IF Head(ds) # Head(es) THEN Head(ds) > Head(es)
    ELSE DigitsGreater(Tail(ds), Tail(es))

RECURSIVE DigitsValue(_, _)
DigitsValue(ds, acc) ==
    IF ds = <<>> THEN acc ELSE DigitsValue(Tail(ds), acc * 10 + Head(ds))

\* atoi::<u64>: the number its leading digits spell; None when the line
\* starts with no digit or the number overflows u64.
Atoi(line) ==
    LET ds == LeadingDigits(line)
        sig == StripZeros(ds)
    IN  IF ds = <<>> THEN None
        ELSE IF Len(sig) > Len(U64MaxDigits)
                \/ (Len(sig) = Len(U64MaxDigits)
                    /\ DigitsGreater(sig, U64MaxDigits))
        THEN None
        ELSE Some(DigitsValue(sig, 0))

\* get_decimal
GetDecimal(b, pos) ==
    LET l == GetLine(b, pos)
    IN  IF l.res # "Ok" THEN [res |-> "Incomplete", pos |-> pos, n |-> 0]
        ELSE IF Atoi(l.line) = None
        THEN [res |-> "Other", pos |-> l.pos, n |-> 0]
        ELSE [res |-> "Ok", pos |-> l.pos, n |-> Atoi(l.line)[1]]

\* skip(src, n)
Skip(b, pos, n) ==
    IF Len(b) - pos < n THEN Chk("Incomplete", pos)
    ELSE Chk("Ok", pos + n)

\* Frame::check, b'$' followed by b'-': skip 4 bytes, "-1\r\n", unread.
CheckNegativeBulk(b, pos) == Skip(b, pos, 4)

\* Frame::check(src) with the cursor at pos.
RECURSIVE FrameCheck(_, _)
RECURSIVE CheckElems(_, _, _)
CheckElems(b, pos, n) ==
    IF n = 0 THEN Chk("Ok", pos)
    ELSE LET c == FrameCheck(b, pos)
         IN  IF c.res # "Ok" THEN c ELSE CheckElems(b, c.pos, n - 1)

FrameCheck(b, pos) ==
    IF Len(b) - pos = 0 THEN Chk("Incomplete", pos)
    ELSE LET tag == b[pos + 1]
             p == pos + 1
         IN  IF tag = Plus \/ tag = Minus
             THEN LET l == GetLine(b, p) IN Chk(l.res, l.pos)
             ELSE IF tag = Colon
             THEN LET d == GetDecimal(b, p) IN Chk(d.res, d.pos)
             ELSE IF tag = Dollar
             THEN IF Len(b) - p = 0 THEN Chk("Incomplete", p)
                  ELSE IF b[p + 1] = Minus THEN CheckNegativeBulk(b, p)
                  ELSE LET d == GetDecimal(b, p)
                       IN  IF d.res # "Ok" THEN Chk(d.res, d.pos)
                           ELSE Skip(b, d.pos, d.n + 2)
             ELSE IF tag = Star
             THEN LET d == GetDecimal(b, p)
                  IN  IF d.res # "Ok" THEN Chk(d.res, d.pos)
                      ELSE CheckElems(b, d.pos, d.n)
             ELSE Chk("Other", p)

\* String::from_utf8 on the bytes the model uses: ASCII bytes are valid,
\* the byte 0xFF never is.
Utf8Valid(line) == \A i \in 1..Len(line) : line[i] < 128

\* Frame::parse(src) with the cursor at pos.
RECURSIVE FrameParse(_, _)
RECURSIVE ParseElems(_, _, _, _)
ParseElems(b, pos, n, out) ==
    IF n = 0 THEN Res("Ok", pos, Array(out))
    ELSE LET e == FrameParse(b, pos)
         IN  IF e.res # "Ok" THEN e
             ELSE ParseElems(b, e.pos, n - 1, Append(out, e.frame))

FrameParse(b, pos) ==
    IF Len(b) - pos = 0 THEN Res("Incomplete", pos, Null)
    ELSE LET tag == b[pos + 1]
             p == pos + 1
         IN  IF tag = Plus \/ tag = Minus
             THEN LET l == GetLine(b, p)
                  IN  IF l.res # "Ok" THEN Res("Incomplete", p, Null)
                      ELSE IF ~Utf8Valid(l.line) THEN Res("Other", l.pos, Null)
                      ELSE Res("Ok", l.pos, IF tag = Plus THEN Simple(l.line)
                                            ELSE Error(l.line))
             ELSE IF tag = Colon
             THEN LET d == GetDecimal(b, p)
                  IN  Res(d.res, d.pos, IF d.res = "Ok" THEN Integer(d.n)
                                        ELSE Null)
             ELSE IF tag = Dollar
             THEN IF Len(b) - p = 0 THEN Res("Incomplete", p, Null)
                  ELSE IF b[p + 1] = Minus
                  THEN LET l == GetLine(b, p)
                       IN  IF l.res # "Ok" THEN Res("Incomplete", p, Null)
                           ELSE IF l.line # <<Minus, 49>>
                           THEN Res("Other", l.pos, Null)
                           ELSE Res("Ok", l.pos, Null)
                  ELSE LET d == GetDecimal(b, p)
                       IN  IF d.res # "Ok" THEN Res(d.res, d.pos, Null)
                           ELSE IF Len(b) - d.pos < d.n + 2
                           THEN Res("Incomplete", d.pos, Null)
                           ELSE Res("Ok", d.pos + d.n + 2,
                                    Bulk(Slice(b, d.pos, d.pos + d.n)))
             ELSE IF tag = Star
             THEN LET d == GetDecimal(b, p)
                  IN  IF d.res # "Ok" THEN Res(d.res, d.pos, Null)
                      ELSE ParseElems(b, d.pos, d.n, <<>>)
             ELSE Res("Panic", p, Null)

\* The decimal digits of a number, as ASCII bytes ("{}" of a u64).
RECURSIVE DecimalDigits(_)
DecimalDigits(n) ==
    IF n < 10 THEN <<48 + n>>
    ELSE Append(DecimalDigits(n \div 10), 48 + (n % 10))

\* Connection::write_decimal: the digits are formatted into a buffer of
\* WriteDecimalBuf bytes (an io::Error when they do not fit), then
\* written, then "\r\n".
WriteDecimalBuf == 12
\* write_decimal on a value given by its decimal digits ds, as ASCII: what
\* "{}" formats.  The Cursor over the buffer takes what fits, and write!
\* fails when digits are left over; nothing of the number is written then.
WriteDecimalText(ds) ==
    IF Len(ds) > WriteDecimalBuf THEN [res |-> "Other", bytes |-> <<>>]
    ELSE [res |-> "Ok", bytes |-> ds \o <<CR, LF>>]
WriteDecimal(n) == WriteDecimalText(DecimalDigits(n))

\* Connection::write_value: the bytes written to the stream.
WriteValue(f) ==
    IF f.tag = "Simple"
    THEN [res |-> "Ok", bytes |-> <<Plus>> \o f.bytes \o <<CR, LF>>]
    ELSE IF f.tag = "Error"
    THEN [res |-> "Ok", bytes |-> <<Plus>> \o f.bytes \o <<CR, LF>>]
    ELSE IF f.tag = "Integer"
    THEN LET d == WriteDecimal(f.num)
         IN  [res |-> d.res, bytes |-> <<Colon>> \o d.bytes]
    ELSE IF f.tag = "Null"
    THEN [res |-> "Ok", bytes |-> <<Dollar, Minus, 49, CR, LF>>]
    ELSE IF f.tag = "Bulk"
    THEN LET d == WriteDecimal(Len(f.bytes))
         IN  IF d.res # "Ok" THEN d
             ELSE [res |-> "Ok", bytes |-> d.bytes \o f.bytes \o <<CR, LF>>]
    ELSE [res |-> "Panic", bytes |-> <<>>]

\* Connection::write_frame, the loop over the entries of an Array: stops at
\* the first entry that fails, with what was written before it.
RECURSIVE WriteEntries(_, _)
WriteEntries(elems, acc) ==
    IF elems = <<>> THEN [res |-> "Ok", bytes |-> acc]
    ELSE LET w == WriteValue(Head(elems))
         IN  IF w.res # "Ok" THEN [res |-> w.res, bytes |-> acc \o w.bytes]
             ELSE WriteEntries(Tail(elems), acc \o w.bytes)

\* Connection::write_frame: the bytes written and the result.
WriteFrame(f) ==
    IF f.tag = "Array"
    THEN LET d == WriteDecimal(Len(f.elems))
         IN  IF d.res # "Ok" THEN [res |-> d.res, bytes |-> <<Star>>]
             ELSE WriteEntries(f.elems, <<Star>> \o d.bytes)
    ELSE WriteValue(f)

\* The wire format of section 4.F of the specification.
RECURSIVE WireFormat(_)
RECURSIVE WireFormatAll(_)
WireFormatAll(elems) ==
    IF elems = <<>> THEN <<>>
    ELSE WireFormat(Head(elems)) \o WireFormatAll(Tail(elems))

WireFormat(f) ==
    IF f.tag = "Simple" THEN <<Plus>> \o f.bytes \o <<CR, LF>>
    ELSE IF f.tag = "Error" THEN <<Minus>> \o f.bytes \o <<CR, LF>>
    ELSE IF f.tag = "Integer"
    THEN <<Colon>> \o DecimalDigits(f.num) \o <<CR, LF>>
    ELSE IF f.tag = "Bulk"
    THEN <<Dollar>> \o DecimalDigits(Len(f.bytes)) \o <<CR, LF>> \o f.bytes
         \o <<CR, LF>>
    ELSE IF f.tag = "Null" THEN <<Dollar, Minus, 49, CR, LF>>
    ELSE <<Star>> \o DecimalDigits(Len(f.elems)) \o <<CR, LF>>
         \o WireFormatAll(f.elems)

(* The inputs of the codec.                                                *)
(***************************************************************************)
\* Every byte string of at most MaxRawLen bytes of the alphabet is a buffer.
MaxRawLen == 4
\* The tag bytes, the terminator bytes, two digits, a letter and 0xFF.
Alphabet == {Plus, Minus, Colon, Dollar, Star, CR, LF, 48, 49, 97, 255}

\* "OK", "bar", "ERR unknown command 'FOO'"
TextOK == <<79, 75>>
TextBar == <<98, 97, 114>>
TextUnknownFoo == <<69, 82, 82, 32, 117, 110, 107, 110, 111, 119, 110, 32, 99, 111, 109, 109, 97, 110, 100, 32, 39, 70, 79, 79, 39>>

Texts == {<<>>, <<97>>, TextOK, TextBar, TextUnknownFoo}
Scalars ==
    {Simple(t) : t \in Texts} \cup {Error(t) : t \in Texts}
    \cup {Bulk(t) : t \in Texts} \cup {Integer(n) : n \in {0, 1, 7, 10, 250}}
    \cup {Null}
\* The frames handed to write_frame: the scalars and arrays of them.
Frames ==
    Scalars \cup {Array(<<>>)} \cup {Array(<<f>>) : f \in Scalars}
    \cup {Array(<<Bulk(TextBar), Integer(1)>>),
          Array(<<Bulk(<<97>>), Bulk(<<97>>), Null>>)}

RECURSIVE SeqsUpTo(_, _)
SeqsUpTo(S, n) ==
    IF n = 0 THEN {<<>>}
    ELSE LET shorter == SeqsUpTo(S, n - 1)
         IN  shorter \cup {Append(s, x) : s \in shorter, x \in S}

\* The well-formed frames whose encodings are cut and altered below.
Seeds ==
    {Simple(<<97>>), Error(<<97>>), Integer(10), Bulk(<<>>), Bulk(<<97>>),
     Null, Array(<<>>), Array(<<Integer(1)>>), Array(<<Bulk(<<97>>), Null>>)}

\* The buffers a peer sends: every short byte string, and the encodings of
\* the seeds whole, cut short, followed by one more byte, and with one byte
\* replaced.
Buffers ==
    SeqsUpTo(Alphabet, MaxRawLen)
    \cup UNION {{SubSeq(WireFormat(f), 1, n) : n \in 0..Len(WireFormat(f))}
                : f \in Seeds}
    \cup {Append(WireFormat(f), x) : f \in Seeds, x \in Alphabet}
    \cup UNION {{[WireFormat(f) EXCEPT ![i] = x] : i \in 1..Len(WireFormat(f))}
                : f \in Seeds, x \in Alphabet}

NoRes == <<>>

\* No call of write_decimal is studied.
NoDecimal == [val |-> <<>>, ctx |-> "", res |-> NoRes]

\* The bytes write_frame and write_value put before the number: b':' for
\* an Integer, b'*' for the length of an Array, nothing for the length of
\* a Bulk.
DecimalTag(ctx) ==
    IF ctx = "Integer" THEN <<Colon>>
    ELSE IF ctx = "Array" THEN <<Star>>
    ELSE <<>>

\* Connection::write_value or write_frame up to and including
\* write_decimal(val): for Frame::Integer(val), for the length val of a
\* Bulk, for the length val of an Array.
ConnWriteDecimal ==
    /\ decimal.ctx # ""
    /\ decimal.res = NoRes
    /\ LET d == WriteDecimalText(decimal.val)
       IN  decimal' = [decimal EXCEPT
                         !.res = Some([res |-> d.res,
                                       bytes |-> DecimalTag(decimal.ctx)
                                                 \o d.bytes])]
    /\ UNCHANGED <<frame, buf, writeRes, checkRes, parseRes, conn>>
    /\ UNCHANGED <<dbVars, srvVars>>

\* Connection::write_frame(frame): the bytes reach the wire.
ConnWriteFrame ==
    /\ frame # None
    /\ writeRes = NoRes
    /\ LET w == WriteFrame(frame[1])
       IN  /\ writeRes' = Some(w.res)
           /\ buf' = w.bytes
    /\ UNCHANGED <<frame, checkRes, parseRes, decimal, conn>>
    /\ UNCHANGED <<dbVars, srvVars>>

\* Frame::check on the bytes of the wire, cursor at 0.
Check ==
    /\ frame # None => writeRes # NoRes
    /\ checkRes = NoRes
    /\ checkRes' = Some(FrameCheck(buf, 0))
    /\ UNCHANGED <<frame, buf, writeRes, parseRes, decimal, conn>>
    /\ UNCHANGED <<dbVars, srvVars>>

\* Frame::parse on the bytes of the wire, cursor at 0.
Parse ==
    /\ frame # None => writeRes # NoRes
    /\ parseRes = NoRes
    /\ parseRes' = Some(FrameParse(buf, 0))
    /\ UNCHANGED <<frame, buf, writeRes, checkRes, decimal, conn>>
    /\ UNCHANGED <<dbVars, srvVars>>

----------------------------------------------------------------------------
(***************************************************************************)
(* connection.rs: read_frame and parse_frame.                              *)
(***************************************************************************)
\* Number of frames a peer sends back to back before it closes.
MaxFrames == 2

\* What a peer sends in all: whole frames, then (maybe) some more bytes.
Peer(frames, tail) == [frames |-> frames, tail |-> tail]
PeerBytes(peer) == WireFormatAll(peer.frames) \o peer.tail

\* Connection::new: an empty read buffer; nobody reads it (pc "idle").
NewConnection ==
    [buffer |-> <<>>, stream |-> <<>>, peer |-> Peer(<<>>, <<>>),
     got |-> <<>>, pc |-> "idle"]

\* The result of a read_frame call: Ok(Some(frame)), Ok(None), or an error
\* ("reset" is "connection reset by peer", "frame" an error of Frame::check
\* or Frame::parse, "io" one of the socket).
Got(res, f) == [res |-> res, frame |-> f]

\* A mutant of BufferAdvance: the whole buffer is dropped with the frame.
BufferAdvanceClear(b, len) == <<>>

\* self.buffer.advance(len)
BufferAdvance(b, len) == Slice(b, len, Len(b))

\* Connection::parse_frame: Frame::check from position 0, then Frame::parse
\* from 0 again and advance by the length check found; Ok(None) when check
\* says Incomplete.
ParseFrame(b) ==
    LET c == FrameCheck(b, 0)
        p == FrameParse(b, 0)
    IN  IF c.res = "Ok"
        THEN (IF p.res = "Ok"
              THEN [res |-> "Some", frame |-> p.frame,
                    buffer |-> BufferAdvance(b, c.pos)]
              ELSE [res |-> IF p.res = "Panic" THEN "Panic" ELSE "Err",
                    frame |-> Null, buffer |-> b])
        ELSE IF c.res = "Incomplete"
        THEN [res |-> "None", frame |-> Null, buffer |-> b]
        ELSE [res |-> "Err", frame |-> Null, buffer |-> b]

\* A mutant of ReadEof: end of stream is Ok(None) whatever is buffered.
ReadEofAlwaysNone(b) == Got("None", Null)

\* read_frame, read_buf returned 0: Ok(None) with an empty buffer, else
\* Err("connection reset by peer").
ReadEof(b) == IF b = <<>> THEN Got("None", Null) ELSE Got("reset", Null)

\* read_frame, top of the loop: parse_frame.  With a frame the call returns
\* it and the caller's next call starts here again; with Ok(None) the loop
\* goes on to read_buf; an error ends the call and the connection.
ReadFrameParse ==
    /\ conn.pc = "parse"
    /\ LET r == ParseFrame(conn.buffer)
       IN  conn' = IF r.res = "Some"
                   THEN [conn EXCEPT !.buffer = r.buffer,
                                     !.got = Append(@, Got("Some", r.frame))]
                   ELSE IF r.res = "None"
                   THEN [conn EXCEPT !.pc = "read"]
                   ELSE [conn EXCEPT !.got = Append(@, Got("frame", Null)),
                                     !.pc = "done"]
    /\ UNCHANGED <<frame, buf, writeRes, checkRes, parseRes, decimal>>
    /\ UNCHANGED <<dbVars, srvVars>>

\* read_frame, stream.read_buf(&mut self.buffer): n > 0 bytes of the stream
\* are appended to the buffer, as many as the socket has at that moment;
\* n = 0 is the end of the stream, which ends the call.
ReadFrameReadBuf(n) ==
    /\ conn.pc = "read"
    /\ n <= Len(conn.stream)
    /\ n = 0 => conn.stream = <<>>
    /\ conn' = IF n = 0
               THEN [conn EXCEPT !.got = Append(@, ReadEof(conn.buffer)),
                                 !.pc = "done"]
               ELSE [conn EXCEPT !.buffer = @ \o SubSeq(conn.stream, 1, n),
                                 !.stream = SubSeq(@, n + 1, Len(@)),
                                 !.pc = "parse"]
    /\ UNCHANGED <<frame, buf, writeRes, checkRes, parseRes, decimal>>
    /\ UNCHANGED <<dbVars, srvVars>>

\* read_frame, read_buf fails with an io::Error: the call returns it.
ReadFrameIoErr ==
    /\ conn.pc = "read"
    /\ conn' = [conn EXCEPT !.got = Append(@, Got("io", Null)),
                            !.pc = "done"]
    /\ UNCHANGED <<frame, buf, writeRes, checkRes, parseRes, decimal>>
    /\ UNCHANGED <<dbVars, srvVars>>

----------------------------------------------------------------------------
(***************************************************************************)
(* server.rs and cmd/: the listener, the handler tasks and the commands.   *)
(***************************************************************************)
\* The connections that clients open, in the order they are accepted.
ConnIds == 1..NumConns

\* broadcast::channel(1024)
ChannelCapacity == 1024

\* The utf-8 bytes of the strings that travel in frames.
TextPong == <<80, 79, 78, 71>>
TextSubscribe == <<115, 117, 98, 115, 99, 114, 105, 98, 101>>
TextUnsubscribe == <<117, 110>> \o TextSubscribe
TextMessage == <<109, 101, 115, 115, 97, 103, 101>>
Utf8(s) ==
    CASE s = "k1" -> <<107, 49>> [] s = "k2" -> <<107, 50>>
      [] s = "v1" -> <<118, 49>> [] s = "v2" -> <<118, 50>>
      [] s = "c1" -> <<99, 49>>  [] s = "c2" -> <<99, 50>>
      [] s = "m1" -> <<109, 49>> [] s = "m2" -> <<109, 50>>

\* The commands a client sends, as Command::from_frame reads them: the
\* command name, its arguments, the channels of (un)subscribe.
Req(name, a, b, chs) == [name |-> name, a |-> a, b |-> b, chs |-> chs]
ReqGet(k) == Req("get", k, "", <<>>)
ReqSet(k, v) == Req("set", k, v, <<>>)
ReqPublish(c, m) == Req("publish", c, m, <<>>)
ReqSubscribe(chs) == Req("subscribe", "", "", chs)
ReqUnsubscribe(chs) == Req("unsubscribe", "", "", chs)
ReqPing == Req("ping", "", "", <<>>)
\* FOO bar: a well-formed frame with a command name the server does not know
ReqFoo == Req("FOO", "", "", <<>>)
\* a frame that is no command (not an array of bulk strings)
ReqBad == Req("", "", "", <<>>)

\* Command::from_frame: Ok for the six commands and for an unknown name,
\* Err for a frame of the wrong shape.
FromFrameOk(req) == req.name # ""

\* Get::apply: Frame::Bulk(value) or Frame::Null
GetResponse(opt) == IF opt = None THEN Null ELSE Bulk(Utf8(opt[1]))
\* Set::apply: Frame::Simple("OK")
SetResponse == Simple(TextOK)
\* Publish::apply: Frame::Integer(num_subscribers)
PublishResponse(n) == Integer(n)
\* Ping::apply without message: Frame::Simple("PONG")
PingResponse == Simple(TextPong)
\* Unknown::apply: Frame::Error("ERR unknown command '<name>'")
UnknownResponse == Error(TextUnknownFoo)
\* Command::get_name: the name of a command, as bytes
CommandName(name) ==
    CASE name = "get" -> <<103, 101, 116>>
      [] name = "set" -> <<115, 101, 116>>
      [] name = "publish" -> <<112, 117, 98, 108, 105, 115, 104>>
      [] name = "ping" -> <<112, 105, 110, 103>>
      [] name = "FOO" -> <<70, 79, 79>>
\* Unknown::new(command.get_name()).apply in handle_command: the Error
\* frame "ERR unknown command '<name>'" with the name of the command read
UnknownFor(name) ==
    Error(SubSeq(TextUnknownFoo, 1, 21) \o CommandName(name) \o <<39>>)
\* make_subscribe_frame, make_unsubscribe_frame, make_message_frame
MakeSubscribeFrame(ch, n) ==
    Array(<<Bulk(TextSubscribe), Bulk(Utf8(ch)), Integer(n)>>)
MakeUnsubscribeFrame(ch, n) ==
    Array(<<Bulk(TextUnsubscribe), Bulk(Utf8(ch)), Integer(n)>>)
MakeMessageFrame(ch, msg) ==
    Array(<<Bulk(TextMessage), Bulk(Utf8(ch)), Bulk(Utf8(msg))>>)

\* A Handler task.
\*   pc:      "idle" (not spawned), "select" (Handler::run awaits a frame or
\*            the shutdown signal), "write" (a command's apply awaits
\*            write_frame of its response), "sub_write" (subscribe mode
\*            awaits write_frame of an ack, a message or an error),
\*            "sub_select" (subscribe mode awaits a message, a frame or the
\*            shutdown signal), "done" (the task has ended)
\*   reqs:    the commands read so far; out: the frames written so far
\*   pending: the frame whose write_frame is awaited
\*   channels: Subscribe.channels still to subscribe to
\*   unsub:   the channels handle_command still has to unsubscribe from
\*   subs:    the StreamMap: <<channel, receiver>> in Vec order
\*   res:     how Handler::run returned
HandlerIdle ==
    [pc |-> "idle", is_shutdown |-> FALSE, reqs |-> <<>>, out |-> <<>>,
     pending |-> None, channels |-> <<>>, unsub |-> <<>>, subs |-> <<>>,
     res |-> ""]

\* StreamMap: the index of a key, removal by swap_remove, insert (which
\* removes the stream the key had before and pushes the new one).
SubsIndex(subs, ch) ==
    IF \E i \in 1..Len(subs) : subs[i][1] = ch
    THEN CHOOSE i \in 1..Len(subs) : subs[i][1] = ch
    ELSE 0
SwapRemove(s, i) ==
    IF i = Len(s) THEN SubSeq(s, 1, Len(s) - 1)
    ELSE [j \in 1..(Len(s) - 1) |-> IF j = i THEN s[Len(s)] ELSE s[j]]
\* A mutant of SubsRemove: the last stream is popped, whichever key is named.
SubsRemoveLast(subs, ch) ==
    IF SubsIndex(subs, ch) = 0 THEN subs
    ELSE SubSeq(subs, 1, Len(subs) - 1)

SubsRemove(subs, ch) ==
    IF SubsIndex(subs, ch) = 0 THEN subs
    ELSE SwapRemove(subs, SubsIndex(subs, ch))
\* A mutant of SubsInsert: the stream is pushed, the one the key had stays.
SubsInsertPush(subs, ch, r) == Append(subs, <<ch, r>>)

SubsInsert(subs, ch, r) == Append(SubsRemove(subs, ch), <<ch, r>>)
SubsKeys(subs) == [i \in 1..Len(subs) |-> subs[i][1]]
SubsRx(subs) == {subs[i][2] : i \in 1..Len(subs)}

\* The drop of a set of broadcast::Receiver handles: every sender counts
\* its receivers down.
DropCounts(ps, rxs) ==
    [c \in DOMAIN ps |->
        [rx_cnt |-> ps[c].rx_cnt
                     - Cardinality({r \in rxs : receivers[r] = c})]]

\* RecvError::Lagged, as it stands at the head of what a receiver holds:
\* the receiver fell ChannelCapacity behind and its next recv reports it.
Lagged == "lagged"

\* The values a receiver holds, the lag indication aside.
Held(q) == IF q # <<>> /\ Head(q) = Lagged THEN Tail(q) ELSE q

\* Sender::send(value): the value is queued for every receiver of the
\* channel; a receiver that is ChannelCapacity behind loses its oldest value
\* and its next recv returns Lagged before the oldest value still held.
Deliver(q, ch, msg) ==
    [r \in RxIds |->
        IF receivers[r] = ch
        THEN (IF Len(Held(q[r])) >= ChannelCapacity
              THEN <<Lagged>> \o Append(Tail(Held(q[r])), msg)
              ELSE Append(q[r], msg))
        ELSE q[r]]

\* A mutant of StreamNext: Lagged ends the stream like any other error.
StreamNextLaggedBreaks(q) ==
    IF Head(q) = Lagged
    THEN [ended |-> TRUE, msg |-> "", rest |-> <<>>]
    ELSE [ended |-> FALSE, msg |-> Head(q), rest |-> Tail(q)]

\* The stream! of subscribe_to_channel, polled on a receiver that holds q
\* (not empty): Ok(msg) is yielded, Lagged is passed over and the loop
\* receives again (a lagged receiver holds ChannelCapacity values).
StreamNext(q) ==
    IF Head(q) = Lagged
    THEN [ended |-> FALSE, msg |-> q[2], rest |-> Tail(Tail(q))]
    ELSE [ended |-> FALSE, msg |-> Head(q), rest |-> Tail(q)]

\* What a step of a Handler task leaves alone.
HandlerFrame ==
    /\ UNCHANGED <<server, listener>>
    /\ UNCHANGED <<shutdown, background_task, now, worker, ret, setLog>>
    /\ UNCHANGED codecVars
NoDb == UNCHANGED <<entries, expirations, notifying>>
NoPubSub == UNCHANGED <<receivers, pub_sub, rxq, sent, heard>>

\* The end of the spawned task: Handler::run has returned res, the streams
\* of subscribe mode and their receivers are dropped, drop(permit) returns
\* the permit, and the Handler is dropped with its Connection and its
\* drain sender.
HandlerEnds(h, hr, res, sd) ==
    /\ handlers' = [handlers EXCEPT ![h] =
                      [hr EXCEPT !.pc = "done", !.is_shutdown = sd,
                                 !.res = res, !.pending = None,
                                 !.reqs = <<>>, !.out = <<>>,
                                 !.channels = <<>>, !.unsub = <<>>,
                                 !.subs = <<>>]]
    /\ receivers' = [r \in RxIds |->
                       IF r \in SubsRx(hr.subs) THEN NoRx ELSE receivers[r]]
    /\ pub_sub' = DropCounts(pub_sub, SubsRx(hr.subs))
    /\ rxq' = [r \in RxIds |->
                 IF r \in SubsRx(hr.subs) THEN <<>> ELSE rxq[r]]
    /\ sent' = [r \in RxIds |->
                  IF r \in SubsRx(hr.subs) THEN <<>> ELSE sent[r]]
    /\ heard' = [r \in RxIds |->
                   IF r \in SubsRx(hr.subs) THEN <<>> ELSE heard[r]]
    /\ permits' = permits + 1
    /\ NoDb

\* A mutant of NewReceiverQueue: the receiver takes over what the channel's
\* receiver before it held.
NewReceiverQueueHistory(q) == q

\* What a broadcast::Receiver holds when Sender::subscribe or
\* broadcast::channel returns it: nothing, it starts at the channel's tail.
NewReceiverQueue(q) == <<>>

\* subscribe_to_channel up to its write_frame: db.subscribe(channel_name)
\* returns a new receiver, subscription.insert replaces the stream the
\* channel had (dropping its receiver and what it had buffered), and the
\* ack carries subscription.len().
SubscribeStep(h, hr) ==
    LET ch == Head(hr.channels)
        old == SubsIndex(hr.subs, ch)
        r == IF old # 0 THEN hr.subs[old][2]
             ELSE CHOOSE x \in FreeRx : \A y \in FreeRx : x <= y
        subs == SubsInsert(hr.subs, ch, r)
    IN  /\ old # 0 \/ FreeRx # {}
        /\ receivers' = [receivers EXCEPT ![r] = ch]
        /\ pub_sub' = IF old # 0 THEN pub_sub ELSE SubscribePubSub(pub_sub, ch)
        /\ rxq' = [rxq EXCEPT ![r] = NewReceiverQueue(rxq[r])]
        /\ sent' = IF old # 0 THEN sent ELSE [sent EXCEPT ![r] = <<>>]
        /\ heard' = [heard EXCEPT ![r] = <<>>]
        /\ handlers' = [handlers EXCEPT ![h] =
                          [hr EXCEPT !.pc = "sub_write",
                                     !.channels = Tail(hr.channels),
                                     !.subs = subs,
                                     !.pending = Some(MakeSubscribeFrame(
                                                        ch, Len(subs)))]]
        /\ UNCHANGED permits
        /\ NoDb

\* handle_command, Command::Unsubscribe, one turn of its for loop up to the
\* write_frame: subscriptions.remove(&channel_name) and the ack.
UnsubscribeStep(h, hr) ==
    LET ch == Head(hr.unsub)
        old == SubsIndex(hr.subs, ch)
        rxs == IF old = 0 THEN {} ELSE {hr.subs[old][2]}
        subs == SubsRemove(hr.subs, ch)
    IN  /\ receivers' = [r \in RxIds |->
                           IF r \in rxs THEN NoRx ELSE receivers[r]]
        /\ pub_sub' = DropCounts(pub_sub, rxs)
        /\ rxq' = [r \in RxIds |-> IF r \in rxs THEN <<>> ELSE rxq[r]]
        /\ sent' = [r \in RxIds |-> IF r \in rxs THEN <<>> ELSE sent[r]]
        /\ heard' = [r \in RxIds |-> IF r \in rxs THEN <<>> ELSE heard[r]]
        /\ handlers' = [handlers EXCEPT ![h] =
                          [hr EXCEPT !.pc = "sub_write",
                                     !.unsub = Tail(hr.unsub),
                                     !.subs = subs,
                                     !.pending = Some(MakeUnsubscribeFrame(
                                                        ch, Len(subs)))]]
        /\ UNCHANGED permits
        /\ NoDb

\* Subscribe mode after a write or a command: the rest of the unsubscribe
\* loop, then the channels drained at the top of the loop of
\* Subscribe::apply, then the select.
SubContinue(h, hr) ==
    IF hr.unsub # <<>> THEN UnsubscribeStep(h, hr)
    ELSE IF hr.channels # <<>> THEN SubscribeStep(h, hr)
    ELSE /\ handlers' = [handlers EXCEPT ![h] = [hr EXCEPT !.pc = "sub_select"]]
         /\ NoPubSub
         /\ UNCHANGED permits
         /\ NoDb

\* The response frame of a command of normal mode.
Response(req) ==
    CASE req.name = "get" -> GetResponse(DbGet(entries, req.a))
      [] req.name = "set" -> SetResponse
      [] req.name = "publish" -> PublishResponse(SendCount(pub_sub, req.a))
      [] req.name = "ping" -> PingResponse
      [] OTHER -> UnknownResponse

\* The connection that owns receiver r has the subscribe-ack of r's channel:
\* it is past the write_frame of subscribe_to_channel.
Acked(r) ==
    \E h \in ConnIds :
        /\ r \in SubsRx(handlers[h].subs)
        /\ ~(/\ handlers[h].pc = "sub_write"
             /\ \E n \in 1..MaxRx :
                   handlers[h].pending
                     = Some(MakeSubscribeFrame(receivers[r], n)))

\* What the command's apply does to the shared state before it writes:
\* db.set(key, value, None), db.publish(channel, message), or nothing.
ApplyDb(req) ==
    IF req.name = "set"
    THEN LET prev == IF req.a \in DOMAIN entries THEN Some(entries[req.a])
                     ELSE None
         IN  /\ entries' = SetEntries(entries, req.a, req.b, None)
             /\ expirations' = SetExpirations(expirations, prev, req.a, None)
             /\ notifying' = IF SetNotify(expirations, None, 0)
                             THEN notifying + 1 ELSE notifying
             /\ UNCHANGED <<rxq, sent, heard>>
    ELSE IF req.name = "publish"
    THEN /\ rxq' = Deliver(rxq, req.a, req.b)
         /\ sent' = [r \in RxIds |->
                       IF receivers[r] = req.a /\ Acked(r)
                       THEN Append(sent[r], req.b)
                       ELSE sent[r]]
         /\ heard' = [r \in RxIds |->
                        IF receivers[r] = req.a THEN Append(heard[r], req.b)
                        ELSE heard[r]]
         /\ NoDb
    ELSE UNCHANGED <<rxq, sent, heard>> /\ NoDb

\* A mutant of CanRead: the next frame is read while the response to the
\* last one is still to be written.
CanReadWhileWriting(hr) == hr.pc \in {"select", "write"}

\* Handler::run reads the next frame in its select only.
CanRead(hr) == hr.pc = "select"

\* Handler::run, connection.read_frame() yields a frame: Command::from_frame
\* and cmd.apply up to the write_frame of the response.  A client sends
\* UNSUBSCRIBE in subscribe mode only.
HandlerRead(h, req) ==
    /\ CanRead(handlers[h])
    /\ req.name # "unsubscribe"
    /\ LET hr == [handlers[h] EXCEPT !.reqs = Append(@, req)]
       IN  IF ~FromFrameOk(req) THEN HandlerEnds(h, hr, "Err", FALSE)
           ELSE IF req.name = "subscribe"
           THEN SubscribeStep(h, [hr EXCEPT !.channels = req.chs])
           ELSE /\ handlers' = [handlers EXCEPT ![h] =
                                  [hr EXCEPT !.pc = "write",
                                             !.pending = Some(Response(req))]]
                /\ ApplyDb(req)
                /\ UNCHANGED <<receivers, pub_sub, permits>>
    /\ HandlerFrame

\* "EX", "ex", "PX", "NX"
TextEX == <<69, 88>>
TextEx == <<101, 120>>
TextPX == <<80, 88>>
TextNX == <<78, 88>>

\* str::to_uppercase on ASCII text
ToUppercase(t) ==
    [i \in 1..Len(t) |-> IF 97 <= t[i] /\ t[i] <= 122 THEN t[i] - 32 ELSE t[i]]

\* Parse::next_string, next_bytes and next_int on the argument frames args
\* (the elements of the command's array after its name): EndOfStream when
\* none is left; a string is a Simple or a Bulk of valid UTF-8, bytes are a
\* Simple or a Bulk, an integer is an Integer or a Simple or Bulk that atoi
\* reads; any other frame is an error.
NextString(args) ==
    IF args = <<>> THEN [res |-> "EndOfStream", val |-> <<>>]
    ELSE IF Head(args).tag \in {"Simple", "Bulk"} /\ Utf8Valid(Head(args).bytes)
    THEN [res |-> "Ok", val |-> Head(args).bytes]
    ELSE [res |-> "Other", val |-> <<>>]
NextBytes(args) ==
    IF args = <<>> THEN [res |-> "EndOfStream", val |-> <<>>]
    ELSE IF Head(args).tag \in {"Simple", "Bulk"}
    THEN [res |-> "Ok", val |-> Head(args).bytes]
    ELSE [res |-> "Other", val |-> <<>>]
NextInt(args) ==
    IF args = <<>> THEN [res |-> "EndOfStream", val |-> 0]
    ELSE IF Head(args).tag = "Integer"
    THEN [res |-> "Ok", val |-> Head(args).num]
    ELSE IF Head(args).tag \in {"Simple", "Bulk"}
            /\ Atoi(Head(args).bytes) # None
    THEN [res |-> "Ok", val |-> Atoi(Head(args).bytes)[1]]
    ELSE [res |-> "Other", val |-> 0]

\* What Set::parse_frames returns: Ok(Set {key, value, expire}), expire in
\* milliseconds, with the arguments it has not read, or an error.
SetOk(key, value, expire, rest) ==
    [res |-> "Ok", key |-> key, value |-> value, expire |-> expire,
     rest |-> rest]
SetErr == [res |-> "Err", key |-> <<>>, value |-> <<>>, expire |-> None,
           rest |-> <<>>]

\* The option of SET and its integer: Duration::from_secs or from_millis.
SetOption(key, value, args, unit) ==
    LET n == NextInt(Tail(args))
    IN  IF n.res # "Ok" THEN SetErr
        ELSE SetOk(key, value, Some(n.val * unit), Tail(Tail(args)))

\* A mutant of SetParseFrames: an option that is neither EX nor PX is
\* passed over.
SetParseFramesAnyOption(args) ==
    LET key == NextString(args)
        value == NextBytes(Tail(args))
    IN  IF key.res # "Ok" THEN SetErr
        ELSE IF value.res # "Ok" THEN SetErr
        ELSE LET opt == NextString(Tail(Tail(args)))
             IN  IF opt.res = "Ok" /\ ToUppercase(opt.val) = TextEX
                 THEN SetOption(key.val, value.val, Tail(Tail(args)), 1000)
                 ELSE IF opt.res = "Ok" /\ ToUppercase(opt.val) = TextPX
                 THEN SetOption(key.val, value.val, Tail(Tail(args)), 1)
                 ELSE IF opt.res = "Ok"
                 THEN SetOk(key.val, value.val, None, Tail(Tail(Tail(args))))
                 ELSE IF opt.res = "EndOfStream"
                 THEN SetOk(key.val, value.val, None, <<>>)
                 ELSE SetErr

\* Set::parse_frames
SetParseFrames(args) ==
    LET key == NextString(args)
        value == NextBytes(Tail(args))
    IN  IF key.res # "Ok" THEN SetErr
        ELSE IF value.res # "Ok" THEN SetErr
        ELSE LET opt == NextString(Tail(Tail(args)))
             IN  IF opt.res = "Ok" /\ ToUppercase(opt.val) = TextEX
                 THEN SetOption(key.val, value.val, Tail(Tail(args)), 1000)
                 ELSE IF opt.res = "Ok" /\ ToUppercase(opt.val) = TextPX
                 THEN SetOption(key.val, value.val, Tail(Tail(args)), 1)
                 ELSE IF opt.res = "Ok" THEN SetErr
                 ELSE IF opt.res = "EndOfStream"
                 THEN SetOk(key.val, value.val, None, <<>>)
                 ELSE SetErr

\* Command::from_frame for an array whose first element is SET: the
\* command of Set::parse_frames, then Parse::finish, an error when
\* arguments are left.
SetFromFrame(args) ==
    LET p == SetParseFrames(args)
    IN  IF p.res = "Ok" /\ p.rest # <<>> THEN SetErr ELSE p

\* The key and the value a text stands for.
KeyOf(t) == CHOOSE k \in Keys : Utf8(k) = t
ValueOf(t) == CHOOSE v \in Values : Utf8(v) = t

\* Handler::run, connection.read_frame() yields an array that starts with
\* SET and goes on with args: Command::from_frame, whose error Handler::run
\* returns, or Set::apply up to the write_frame of the response:
\* db.set(key, value, expire).
HandlerReadSet(h, args) ==
    /\ CanRead(handlers[h])
    /\ LET p == SetFromFrame(args)
       IN  IF p.res # "Ok"
           THEN HandlerEnds(h, [handlers[h] EXCEPT !.reqs = Append(@, ReqBad)],
                            "Err", FALSE)
           ELSE LET key == KeyOf(p.key)
                    expires_at == IF p.expire = None THEN None
                                  ELSE Some(now + p.expire[1])
                    prev == IF key \in DOMAIN entries
                            THEN Some(entries[key]) ELSE None
                IN  /\ handlers' =
                          [handlers EXCEPT ![h] =
                             [@ EXCEPT !.reqs = Append(@, ReqSet(
                                                   key, ValueOf(p.value))),
                                       !.pc = "write",
                                       !.pending = Some(SetResponse)]]
                    /\ entries' = SetEntries(entries, key, ValueOf(p.value),
                                             expires_at)
                    /\ expirations' = SetExpirations(expirations, prev, key,
                                                     expires_at)
                    /\ notifying' =
                          IF SetNotify(expirations, p.expire,
                                       IF p.expire = None THEN 0
                                       ELSE now + p.expire[1])
                          THEN notifying + 1 ELSE notifying
                    /\ NoPubSub /\ UNCHANGED permits
    /\ HandlerFrame

\* read_frame() yields Ok(None) (the client closed the connection) or an
\* error, in normal mode or in subscribe mode: Handler::run returns.
HandlerReadEnd(h, res) ==
    /\ handlers[h].pc \in {"select", "sub_select"}
    /\ HandlerEnds(h, handlers[h], res, FALSE)
    /\ HandlerFrame

\* What a completed write_frame leaves on the connection: the bytes of
\* Connection::write_frame, kept with the frame they were written for.
Written(f) == [frame |-> f, bytes |-> WriteFrame(f).bytes]

\* The write_frame awaited by a command's apply completes: the bytes are on
\* the connection and Handler::run loops, or the write failed (ok is what
\* the socket does).
HandlerWrite(h, ok) ==
    /\ handlers[h].pc = "write"
    /\ IF ok /\ WriteFrame(handlers[h].pending[1]).res = "Ok"
       THEN /\ handlers' = [handlers EXCEPT ![h] =
                              [@ EXCEPT !.pc = "select",
                                        !.out = Append(@, Written(
                                                   handlers[h].pending[1])),
                                        !.pending = None]]
            /\ NoPubSub /\ NoDb /\ UNCHANGED permits
       ELSE HandlerEnds(h, handlers[h], "Err", FALSE)
    /\ HandlerFrame

\* Subscribe::apply, the write_frame of an ack, of a message or of the
\* response to an unknown command completes.
HandlerSubWrite(h, ok) ==
    /\ handlers[h].pc = "sub_write"
    /\ IF ok /\ WriteFrame(handlers[h].pending[1]).res = "Ok"
       THEN SubContinue(h, [handlers[h] EXCEPT
                              !.out = Append(@, Written(
                                         handlers[h].pending[1])),
                              !.pending = None])
       ELSE HandlerEnds(h, handlers[h], "Err", FALSE)
    /\ HandlerFrame

\* Subscribe::apply, select branch subscriptions.next(): the stream at
\* position i has something, a message, which make_message_frame wraps; a
\* stream that ends is removed from the StreamMap with its receiver, and
\* the select goes on.
HandlerSubMessage(h, i) ==
    /\ handlers[h].pc = "sub_select"
    /\ i \in 1..Len(handlers[h].subs)
    /\ rxq[handlers[h].subs[i][2]] # <<>>
    /\ LET ch == handlers[h].subs[i][1]
           r == handlers[h].subs[i][2]
           s == StreamNext(rxq[r])
       IN  IF s.ended
           THEN /\ handlers' = [handlers EXCEPT ![h].subs = SwapRemove(@, i)]
                /\ receivers' = [receivers EXCEPT ![r] = NoRx]
                /\ pub_sub' = DropCounts(pub_sub, {r})
                /\ rxq' = [rxq EXCEPT ![r] = <<>>]
                /\ sent' = [sent EXCEPT ![r] = <<>>]
                /\ heard' = [heard EXCEPT ![r] = <<>>]
           ELSE /\ rxq' = [rxq EXCEPT ![r] = s.rest]
                /\ handlers' = [handlers EXCEPT ![h] =
                                  [@ EXCEPT !.pc = "sub_write",
                                            !.pending = Some(MakeMessageFrame(
                                                               ch, s.msg))]]
                /\ UNCHANGED <<receivers, pub_sub, sent, heard>>
    /\ UNCHANGED permits
    /\ NoDb
    /\ HandlerFrame

\* A mutant of SubUnknownStep: the command is applied to the database as
\* in normal mode.
SubUnknownStepApplies(h, hr, req) ==
    /\ handlers' = [handlers EXCEPT ![h] =
                      [hr EXCEPT !.pc = "sub_write",
                                 !.pending = Some(UnknownFor(req.name))]]
    /\ ApplyDb(req)
    /\ UNCHANGED <<receivers, pub_sub, permits>>

\* handle_command, the arm of any other command: Unknown::new(
\* command.get_name()).apply(dst) writes the error; the command is not
\* applied.
SubUnknownStep(h, hr, req) ==
    /\ handlers' = [handlers EXCEPT ![h] =
                      [hr EXCEPT !.pc = "sub_write",
                                 !.pending = Some(UnknownFor(req.name))]]
    /\ NoPubSub /\ NoDb /\ UNCHANGED permits

\* Subscribe::apply, select branch dst.read_frame() with a frame:
\* handle_command.  In subscribe mode a client sends SUBSCRIBE, UNSUBSCRIBE
\* or any other command.
HandlerSubRead(h, req) ==
    /\ handlers[h].pc = "sub_select"
    /\ LET hr == [handlers[h] EXCEPT !.reqs = Append(@, req)]
       IN  IF ~FromFrameOk(req) THEN HandlerEnds(h, hr, "Err", FALSE)
           ELSE IF req.name = "subscribe"
           THEN SubscribeStep(h, [hr EXCEPT !.channels = req.chs])
           ELSE IF req.name = "unsubscribe"
           THEN SubContinue(h, [hr EXCEPT !.unsub =
                                  IF req.chs = <<>> THEN SubsKeys(hr.subs)
                                  ELSE req.chs])
           ELSE SubUnknownStep(h, hr, req)
    /\ HandlerFrame

\* A mutant of SignalFired: the signal is broadcast as soon as the shutdown
\* future completes, while the listener may still be accepting.
SignalFiredAtOnce(srv) == srv.signal

\* Shutdown::recv completes once run has dropped notify_shutdown, the
\* broadcast sender every handler's Shutdown listens to.
SignalFired(srv) == srv.pc # "select"

\* A mutant of AtShutdownBranch: the shutdown signal is also taken while a
\* write_frame is awaited.
AtShutdownBranchAnyAwait(hr) ==
    hr.pc \in {"select", "sub_select", "write", "sub_write"}

\* A mutant of AtShutdownBranch: the select of subscribe mode has no
\* shutdown branch.
AtShutdownBranchNormalOnly(hr) == hr.pc = "select"

\* The selects with a shutdown.recv() branch: the one of Handler::run and
\* the one of Subscribe::apply.
AtShutdownBranch(hr) == hr.pc \in {"select", "sub_select"}

\* The shutdown branch of the select of Handler::run or of
\* Subscribe::apply: is_shutdown is set and the task ends with Ok.
HandlerShutdown(h) ==
    /\ AtShutdownBranch(handlers[h])
    /\ SignalFired(server)
    /\ HandlerEnds(h, handlers[h], "Ok", TRUE)
    /\ HandlerFrame

\* What a step of the listener or of run leaves alone.
ServerFrame ==
    /\ UNCHANGED <<receivers, pub_sub, rxq, sent, heard>>
    /\ UNCHANGED <<entries, expirations, background_task, now, worker,
                   ret, setLog>>
    /\ UNCHANGED codecVars

\* A mutant of AcquireReady: accept without waiting for a permit.
AcquireReadyAlways(n) == TRUE

\* limit_connections.acquire_owned() completes when a permit is free.
AcquireReady(n) == n > 0

\* Listener::run, the permit is acquired; accept starts with backoff = 1.
ListenerAcquire ==
    /\ server.pc = "select"
    /\ listener.pc = "acquire"
    /\ AcquireReady(permits)
    /\ permits' = permits - 1
    /\ listener' = [pc |-> "accept", backoff |-> 1, fails |-> 0]
    /\ UNCHANGED <<server, handlers, shutdown, notifying>>
    /\ ServerFrame

\* Listener::run, accept returned a socket: the Handler is built and its
\* task spawned with the permit; h is the next connection.
ListenerAccept(h) ==
    /\ server.pc = "select"
    /\ listener.pc = "accept"
    /\ handlers[h].pc = "idle"
    /\ \A g \in ConnIds : g < h => handlers[g].pc # "idle"
    /\ handlers' = [handlers EXCEPT ![h] = [HandlerIdle EXCEPT !.pc = "select"]]
    /\ listener' = [pc |-> "acquire", backoff |-> 1, fails |-> 0]
    /\ UNCHANGED <<server, permits, shutdown, notifying>>
    /\ ServerFrame

\* Listener::accept, self.listener.accept() failed: Err(err) with
\* backoff > 64 returns the error (Listener::run returns it and drops the
\* permit); otherwise the loop calls accept again.  The sleep and
\* 'backoff *= 2' stand after the loop, where control never arrives.
ListenerAcceptErr ==
    /\ server.pc = "select"
    /\ listener.pc = "accept"
    /\ listener.fails < MaxFails
    /\ IF listener.backoff > 64
       THEN /\ listener' = [listener EXCEPT !.pc = "failed"]
            /\ permits' = permits + 1
       ELSE /\ listener' = [listener EXCEPT !.fails = @ + 1]
            /\ UNCHANGED permits
    /\ UNCHANGED <<server, handlers, shutdown, notifying>>
    /\ ServerFrame

\* The shutdown future given to run completes (ctrl-c).
ShutdownSignal ==
    /\ server.pc = "select"
    /\ ~server.signal
    /\ server' = [server EXCEPT !.signal = TRUE]
    /\ UNCHANGED <<listener, permits, handlers, shutdown, notifying>>
    /\ ServerFrame

\* run, the select completes (the listener failed or the shutdown future
\* completed): the listener future is dropped with the permit it may hold,
\* then notify_shutdown and run's own drain sender are dropped.
RunShutdown ==
    /\ server.pc = "select"
    /\ server.signal \/ listener.pc = "failed"
    /\ server' = [server EXCEPT !.pc = "drain"]
    /\ listener' = [listener EXCEPT !.pc = "dropped"]
    /\ permits' = IF listener.pc = "accept" THEN permits + 1 ELSE permits
    /\ UNCHANGED <<handlers, shutdown, notifying>>
    /\ ServerFrame

\* A mutant of DrainClosed: recv returns without waiting for the senders.
DrainClosedAtOnce(hs) == TRUE

\* shutdown_complete_rx.recv() returns None when every sender is dropped:
\* run's own and the one each live Handler holds.
DrainClosed(hs) == \A h \in ConnIds : hs[h].pc \in {"idle", "done"}

\* run, the drain recv returns and run returns: its locals are dropped,
\* db_holder among them, whose Drop calls shutdown_purge_task.
RunReturn ==
    /\ server.pc = "drain"
    /\ DrainClosed(handlers)
    /\ server' = [server EXCEPT !.pc = "returned"]
    /\ shutdown' = TRUE
    /\ notifying' = notifying + 1
    /\ UNCHANGED <<listener, permits, handlers>>
    /\ ServerFrame

\* The state when run starts: the listener about to acquire its first
\* permit, every permit free, no connection yet.
InitServer ==
    /\ server = [pc |-> "select", signal |-> FALSE]
    /\ listener = [pc |-> "acquire", backoff |-> 1, fails |-> 0]
    /\ permits = MAX_CONNECTIONS
    /\ handlers = [h \in ConnIds |-> HandlerIdle]
    /\ rxq = [r \in RxIds |-> <<>>]
    /\ sent = [r \in RxIds |-> <<>>]
    /\ heard = [r \in RxIds |-> <<>>]

----------------------------------------------------------------------------
(***************************************************************************)
(* Specifications.                                                         *)
(***************************************************************************)

\* A mutant of NewShutdown: the state is created shut down.
NewShutdownSet == TRUE

\* Db::new, State {shutdown: false}
NewShutdown == FALSE

\* Db::new: empty state, the purge task spawned.
InitDb ==
    /\ entries = <<>>
    /\ pub_sub = <<>>
    /\ expirations = {}
    /\ shutdown = NewShutdown
    /\ background_task = FALSE
    /\ now = 0
    /\ worker = [pc |-> "loop", when |-> None]
    /\ notifying = 0
    /\ receivers = [r \in RxIds |-> NoRx]
    /\ ret = [op |-> "new", arg |-> "", val |-> None]
    /\ setLog = [k \in Keys |-> None]

\* No connection traffic.
InitCodecIdle ==
    /\ frame = None
    /\ buf = <<>>
    /\ writeRes = NoRes
    /\ checkRes = NoRes
    /\ parseRes = NoRes
    /\ conn = NewConnection
    /\ decimal = NoDecimal

Init == InitDb /\ InitCodecIdle /\ InitServer

\* The purge task, the clock and the callers' pending notify_one.
Background ==
    \/ NotifyOne
    \/ ShutdownPurgeTask
    \/ PurgeExpiredTasks
    \/ Tick

\* The key/value environment: every set and get, one subscriber.
Next ==
    \/ \E k \in Keys, v \in Values, e \in Options(Durations) : Set(k, v, e)
    \/ \E k \in Keys : Get(k)
    \/ \E c \in KvChannels : FreeRx = RxIds /\ Subscribe(c)
    \/ \E r \in RxIds : DropReceiver(r)
    \/ \E c \in KvChannels, m \in Msgs : Publish(c, m)
    \/ Background

Spec == Init /\ [][Next]_vars

\* The scheduling of the runtime: the spawned purge task and the callers
\* that owe a notify_one keep running, and the clock advances.
Fairness ==
    /\ WF_vars(PurgeExpiredTasks)
    /\ WF_vars(NotifyOne)
    /\ WF_vars(Tick)

SpecFair == Spec /\ Fairness

\* The pub/sub environment: every subscribe, drop and publish, one key.
NextPubSub ==
    \/ \E k \in PsKeys, v \in PsValues, e \in Options(PsDurations) :
          Set(k, v, e)
    \/ \E k \in PsKeys : Get(k)
    \/ \E c \in Channels : Subscribe(c)
    \/ \E r \in RxIds : DropReceiver(r)
    \/ \E c \in Channels, m \in Msgs : Publish(c, m)
    \/ Background

SpecPubSub == Init /\ [][NextPubSub]_vars

SpecPubSubFair == SpecPubSub /\ Fairness

\* The codec: a frame to write and read back, or the bytes a peer sent.
InitCodec ==
    /\ InitDb
    /\ InitServer
    /\ writeRes = NoRes
    /\ checkRes = NoRes
    /\ parseRes = NoRes
    /\ conn = NewConnection
    /\ decimal = NoDecimal
    /\ \/ frame \in {Some(f) : f \in Frames} /\ buf = <<>>
       \/ frame = None /\ buf \in Buffers

NextCodec ==
    \/ ConnWriteFrame
    \/ Check
    \/ Parse

SpecCodec == InitCodec /\ [][NextCodec]_vars

\* One call of Shared::purge_expired_keys on a State and at a time chosen
\* freely: every map of entries, every set of (deadline, key) pairs.
PurgeEntries ==
    UNION {[S -> [data : PsValues, expires_at : Options(0..MaxTime)]]
           : S \in SUBSET Keys}

InitPurge ==
    /\ entries \in PurgeEntries
    /\ expirations \in SUBSET ((0..MaxTime) \X Keys)
    /\ shutdown \in BOOLEAN
    /\ now \in 0..MaxTime
    /\ pub_sub = <<>>
    /\ background_task = FALSE
    /\ worker = [pc |-> "purge", when |-> None]
    /\ notifying = 0
    /\ receivers = [r \in RxIds |-> NoRx]
    /\ ret = [op |-> "new", arg |-> "", val |-> None]
    /\ setLog = [k \in Keys |-> None]
    /\ InitCodecIdle
    /\ InitServer

\* shared.purge_expired_keys(), called by the purge task; ret keeps the
\* State the call started from and the Option<Instant> it returned.
PurgeExpiredKeysCall ==
    /\ worker.pc = "purge"
    /\ LET p == PurgeExpiredKeys(entries, expirations, shutdown, now)
       IN  /\ entries' = p.entries
           /\ expirations' = p.expirations
           /\ worker' = [pc |-> IF p.ret = None THEN "loop" ELSE "select",
                         when |-> p.ret]
           /\ ret' = [op |-> "purge", arg |-> "", val |-> p.ret,
                      entries |-> entries, expirations |-> expirations]
    /\ UNCHANGED <<codecVars, srvVars>>
    /\ UNCHANGED <<pub_sub, shutdown, background_task, now, notifying,
                   receivers, setLog>>

NextPurge == PurgeExpiredKeysCall

SpecPurge == InitPurge /\ [][NextPurge]_vars

\* The States a Db holds once keys with deadlines have been stored: every
\* entry with a deadline has its pair in expirations and expirations holds
\* nothing else (the State documented at db.rs 59-77; Db::new gives the
\* empty one).
SetEntriesInit ==
    UNION {[S -> [data : PsValues, expires_at : Options(1..MaxTime)]]
           : S \in SUBSET Keys}

InitSet ==
    /\ entries \in SetEntriesInit
    /\ expirations = {<<entries[k].expires_at[1], k>> :
                        k \in {x \in DOMAIN entries :
                                 entries[x].expires_at # None}}
    /\ pub_sub = <<>>
    /\ shutdown = NewShutdown
    /\ background_task = FALSE
    /\ now = 0
    /\ worker = [pc |-> "loop", when |-> None]
    /\ notifying = 0
    /\ receivers = [r \in RxIds |-> NoRx]
    /\ ret = [op |-> "new", arg |-> "", val |-> None]
    /\ setLog = [k \in Keys |-> None]
    /\ InitCodecIdle
    /\ InitServer

\* Db::set and Db::get on such a State, with the purge task and the clock.
NextSet ==
    \/ \E k \in Keys, v \in Values, e \in Options(Durations) : Set(k, v, e)
    \/ \E k \in Keys : Get(k)
    \/ NotifyOne
    \/ PurgeExpiredTasks
    \/ Tick

SpecSet == InitSet /\ [][NextSet]_vars

\* The steps of a Handler task in normal mode; the clients of the
\* connections conns send at most n commands each, every client may close
\* its connection.
HandlerSteps(conns, reqs, n) ==
    \/ \E h \in conns, req \in reqs :
          Len(handlers[h].reqs) < n /\ HandlerRead(h, req)
    \/ \E h \in ConnIds, res \in {"Ok", "Err"} : HandlerReadEnd(h, res)
    \/ \E h \in ConnIds, ok \in BOOLEAN : HandlerWrite(h, ok)

\* The steps of subscribe mode; messages arrive when some client publishes.
HandlerSubSteps(conns, subReqs, n) ==
    \/ \E h \in ConnIds, ok \in BOOLEAN : HandlerSubWrite(h, ok)
    \/ \E h \in ConnIds, i \in 1..MaxRx : HandlerSubMessage(h, i)
    \/ \E h \in conns, req \in subReqs :
          Len(handlers[h].reqs) < n /\ HandlerSubRead(h, req)

\* The listener with a failing accept; the clients connect and close.
NextListener ==
    \/ ListenerAcquire
    \/ \E h \in ConnIds : ListenerAccept(h)
    \/ ListenerAcceptErr
    \/ \E h \in ConnIds, res \in {"Ok", "Err"} : HandlerReadEnd(h, res)

SpecListener == Init /\ [][NextListener]_vars

\* The commands of the clients of the server specification.
SrvReqs == {ReqPing, ReqSubscribe(<<"c1">>)}

\* The server: run, its listener (accept succeeds), the handler tasks and
\* their clients.
NextServer ==
    \/ ListenerAcquire
    \/ \E h \in ConnIds : ListenerAccept(h)
    \/ ShutdownSignal
    \/ RunShutdown
    \/ RunReturn
    \/ \E h \in ConnIds : HandlerShutdown(h)
    \/ HandlerSteps(ConnIds, SrvReqs, SrvMaxReq)
    \/ \E h \in ConnIds, ok \in BOOLEAN : HandlerSubWrite(h, ok)

SpecServer == Init /\ [][NextServer]_vars

\* What a handler task does without its client: its shutdown branch and
\* the completion of a socket write (at most one of them is enabled).
HandlerProgress(h) ==
    \/ HandlerShutdown(h)
    \/ \E ok \in BOOLEAN : HandlerWrite(h, ok)
    \/ \E ok \in BOOLEAN : HandlerSubWrite(h, ok)

\* The scheduling of the runtime: run, and every handler task at its
\* select and at its socket writes, gets to run; a write does not block
\* forever.
FairnessServer ==
    /\ WF_vars(RunShutdown)
    /\ WF_vars(RunReturn)
    /\ \A h \in ConnIds : WF_vars(HandlerProgress(h))

SpecServerFair == SpecServer /\ FairnessServer

\* The server with a subscriber that is sent messages: the client of
\* connection 1 sends SUBSCRIBE c1, the client of connection 2 sends PING
\* and PUBLISH c1 m1, the other clients connect and close, and the shutdown
\* signal comes at any moment.
ShutSubReqs == {ReqSubscribe(<<"c1">>)}
ShutReqs == {ReqPing, ReqPublish("c1", "m1")}

NextShut ==
    \/ ListenerAcquire
    \/ \E h \in ConnIds : ListenerAccept(h)
    \/ ShutdownSignal
    \/ RunShutdown
    \/ RunReturn
    \/ \E h \in ConnIds : HandlerShutdown(h)
    \/ \E req \in ShutSubReqs :
          handlers[1].reqs = <<>> /\ HandlerRead(1, req)
    \/ \E req \in ShutReqs :
          Len(handlers[2].reqs) < SrvMaxReq /\ HandlerRead(2, req)
    \/ \E h \in ConnIds, res \in {"Ok", "Err"} : HandlerReadEnd(h, res)
    \/ \E h \in ConnIds, ok \in BOOLEAN : HandlerWrite(h, ok)
    \/ \E h \in ConnIds, ok \in BOOLEAN : HandlerSubWrite(h, ok)
    \/ \E h \in ConnIds, i \in 1..MaxRx : HandlerSubMessage(h, i)

SpecShut == Init /\ [][NextShut]_vars

\* The commands of the clients of the connection specification: normal
\* mode only, a key read and written, an unknown command.
ConnReqs == {ReqGet("k1"), ReqSet("k1", "v1"), ReqFoo}

\* The connections whose clients send commands in the connection
\* specification; the clients of the others connect and close.
ConnClients == {1, 2}

\* The connections: the listener without accept failures, the handler
\* tasks in normal mode and their clients; no shutdown.
NextConn ==
    \/ ListenerAcquire
    \/ \E h \in ConnIds : ListenerAccept(h)
    \/ HandlerSteps(ConnClients, ConnReqs, MaxReq)

SpecConn == Init /\ [][NextConn]_vars

\* The commands of the clients of the pub/sub specification, in normal mode
\* and in subscribe mode.
FanoutReqs == {ReqPublish("c1", "m1"), ReqPublish("c1", "m2"),
               ReqSubscribe(<<"c1">>), ReqBad}
FanoutSubReqs == {ReqSubscribe(<<"c1">>), ReqUnsubscribe(<<>>), ReqFoo,
                  ReqBad}

\* Pub/sub fan-out: the listener, the handler tasks in both modes and
\* their clients; no shutdown.
NextFanout ==
    \/ ListenerAcquire
    \/ \E h \in ConnIds : ListenerAccept(h)
    \/ HandlerSteps(ConnIds, FanoutReqs, MaxReq)
    \/ HandlerSubSteps(ConnIds, FanoutSubReqs, MaxReq)

SpecFanout == Init /\ [][NextFanout]_vars

\* Subscribe mode: connection 1 is a subscriber, which sends SUBSCRIBE and
\* then the commands of subscribe mode, connection 2 a publisher.
SubFirstReqs == {ReqSubscribe(<<"c1">>)}
SubModeReqs == {ReqSubscribe(<<"c1">>), ReqUnsubscribe(<<"c1">>)}
SubPubReqs == {ReqPublish("c1", "m1"), ReqPublish("c1", "m2")}

NextSub ==
    \/ ListenerAcquire
    \/ \E h \in {1, 2} : ListenerAccept(h)
    \/ \E req \in SubFirstReqs : handlers[1].reqs = <<>> /\ HandlerRead(1, req)
    \/ \E req \in SubPubReqs :
          Len(handlers[2].reqs) < MaxReq /\ HandlerRead(2, req)
    \/ \E h \in ConnIds, res \in {"Ok", "Err"} : HandlerReadEnd(h, res)
    \/ \E h \in ConnIds, ok \in BOOLEAN : HandlerWrite(h, ok)
    \/ HandlerSubSteps({1}, SubModeReqs, SubMaxReq)

SpecSub == Init /\ [][NextSub]_vars

\* A slow subscriber: connection 1 is in subscribe mode on c1, has the ack,
\* and has not been scheduled while ChannelCapacity messages were published:
\* its receiver holds them all.  Connection 2 is a publisher at its select.
LagBacklog == [i \in 1..ChannelCapacity |-> "m1"]

InitLag ==
    /\ entries = <<>>
    /\ expirations = {}
    /\ shutdown = NewShutdown
    /\ background_task = FALSE
    /\ now = 0
    /\ worker = [pc |-> "loop", when |-> None]
    /\ notifying = 0
    /\ ret = [op |-> "new", arg |-> "", val |-> None]
    /\ setLog = [k \in Keys |-> None]
    /\ InitCodecIdle
    /\ server = [pc |-> "select", signal |-> FALSE]
    /\ listener = [pc |-> "acquire", backoff |-> 1, fails |-> 0]
    /\ permits = MAX_CONNECTIONS - 2
    /\ pub_sub = [c \in {"c1"} |-> [rx_cnt |-> 1]]
    /\ receivers = [r \in RxIds |-> IF r = 1 THEN "c1" ELSE NoRx]
    /\ handlers =
          [h \in ConnIds |->
              IF h = 1
              THEN [HandlerIdle EXCEPT
                      !.pc = "sub_select",
                      !.reqs = <<ReqSubscribe(<<"c1">>)>>,
                      !.out = <<Written(MakeSubscribeFrame("c1", 1))>>,
                      !.subs = <<<<"c1", 1>>>>]
              ELSE IF h = 2 THEN [HandlerIdle EXCEPT !.pc = "select"]
              ELSE HandlerIdle]
    /\ rxq = [r \in RxIds |-> IF r = 1 THEN LagBacklog ELSE <<>>]
    /\ sent = [r \in RxIds |-> IF r = 1 THEN LagBacklog ELSE <<>>]
    /\ heard = [r \in RxIds |-> IF r = 1 THEN LagBacklog ELSE <<>>]

\* The publisher publishes on, the subscriber is scheduled again and is
\* written SubMaxReq frames at most.
NextLag ==
    \/ ListenerAcquire
    \/ \E h \in ConnIds : ListenerAccept(h)
    \/ Len(handlers[2].reqs) < MaxReq /\ HandlerRead(2, ReqPublish("c1", "m2"))
    \/ \E h \in ConnIds, res \in {"Ok", "Err"} : HandlerReadEnd(h, res)
    \/ \E h \in ConnIds, ok \in BOOLEAN : HandlerWrite(h, ok)
    \/ \E h \in ConnIds, ok \in BOOLEAN : HandlerSubWrite(h, ok)
    \/ \E h \in ConnIds, i \in 1..MaxRx :
          Len(handlers[h].out) < SubMaxReq /\ HandlerSubMessage(h, i)

SpecLag == InitLag /\ [][NextLag]_vars

\* UNSUBSCRIBE: connection 1 subscribes to one or two channels and then
\* sends UNSUBSCRIBE commands, connection 2 publishes on both channels.
UnsubFirstReqs == {ReqSubscribe(<<"c1">>), ReqSubscribe(<<"c1", "c2">>)}
UnsubModeReqs == {ReqUnsubscribe(<<>>), ReqUnsubscribe(<<"c1">>),
                  ReqUnsubscribe(<<"c2">>)}
UnsubPubReqs == {ReqPublish("c1", "m1"), ReqPublish("c2", "m1")}

NextUnsub ==
    \/ ListenerAcquire
    \/ \E h \in {1, 2} : ListenerAccept(h)
    \/ \E req \in UnsubFirstReqs :
          handlers[1].reqs = <<>> /\ HandlerRead(1, req)
    \/ \E req \in UnsubPubReqs :
          Len(handlers[2].reqs) < MaxReq /\ HandlerRead(2, req)
    \/ \E h \in ConnIds, res \in {"Ok", "Err"} : HandlerReadEnd(h, res)
    \/ \E h \in ConnIds, ok \in BOOLEAN : HandlerWrite(h, ok)
    \/ HandlerSubSteps({1}, UnsubModeReqs, SubMaxReq)

SpecUnsub == Init /\ [][NextUnsub]_vars

\* Repeated SUBSCRIBE: connection 1 subscribes to c1, once or twice in one
\* command, and then subscribes again, to another channel, or unsubscribes;
\* connection 2 publishes m1 and m2 on c1, each once.
ResubFirstReqs == {ReqSubscribe(<<"c1">>), ReqSubscribe(<<"c1", "c1">>)}
ResubModeReqs == {ReqSubscribe(<<"c1">>), ReqSubscribe(<<"c2">>),
                  ReqUnsubscribe(<<"c1">>)}
ResubPubReqs == {ReqPublish("c1", "m1"), ReqPublish("c1", "m2")}

NextResub ==
    \/ ListenerAcquire
    \/ \E h \in {1, 2} : ListenerAccept(h)
    \/ \E req \in ResubFirstReqs :
          handlers[1].reqs = <<>> /\ HandlerRead(1, req)
    \/ \E req \in ResubPubReqs :
          /\ \A i \in 1..Len(handlers[2].reqs) : handlers[2].reqs[i] # req
          /\ HandlerRead(2, req)
    \/ \E h \in ConnIds, res \in {"Ok", "Err"} : HandlerReadEnd(h, res)
    \/ \E h \in ConnIds, ok \in BOOLEAN : HandlerWrite(h, ok)
    \/ HandlerSubSteps({1}, ResubModeReqs, SubMaxReq)

SpecResub == Init /\ [][NextResub]_vars

\* A peer sends frames back to back and closes, maybe in the middle of a
\* frame or after bytes that are no frame; the bytes reach the socket in
\* pieces of any size.
ReadSeeds == {Simple(<<97>>), Null, Bulk(<<97>>), Array(<<Integer(10), Null>>)}
\* "$-0\r\n", "a", "+\xFF\r\n": bytes that are no frame.
ReadBad == {<<Dollar, Minus, 48, CR, LF>>, <<97>>, <<Plus, 255, CR, LF>>}
\* The strict prefixes of a frame, the empty one among them.
ReadCuts ==
    UNION {{SubSeq(WireFormat(f), 1, n) : n \in 0..(Len(WireFormat(f)) - 1)}
           : f \in ReadSeeds}
ReadPeers ==
    {Peer(fs, t) : fs \in SeqsUpTo(ReadSeeds, MaxFrames),
                   t \in ReadCuts \cup ReadBad}

InitRead ==
    /\ InitDb
    /\ InitServer
    /\ frame = None
    /\ buf = <<>>
    /\ writeRes = NoRes
    /\ checkRes = NoRes
    /\ parseRes = NoRes
    /\ decimal = NoDecimal
    /\ conn \in {[buffer |-> <<>>, stream |-> PeerBytes(p), peer |-> p,
                   got |-> <<>>, pc |-> "parse"] : p \in ReadPeers}

NextRead ==
    \/ ReadFrameParse
    \/ \E n \in 0..Len(conn.stream) : ReadFrameReadBuf(n)
    \/ ReadFrameIoErr

SpecRead == InitRead /\ [][NextRead]_vars

\* Clients that send SET with every kind of argument list: connection 1
\* sends SET followed by the frames of SetArgLists, well-formed or not,
\* connection 2 sends GET k1 and SET k1 v2.  The sockets do not fail here,
\* so that a handler returns an error for a command only.
ArgK == Bulk(Utf8("k1"))
ArgV == Bulk(Utf8("v1"))
SetArgLists ==
    {<<>>, <<ArgK>>, <<ArgK, ArgV>>, <<Null, ArgV>>, <<ArgK, Array(<<>>)>>,
     <<ArgK, ArgV, Bulk(TextEX)>>, <<ArgK, ArgV, Bulk(TextEX), Bulk(<<97>>)>>,
     <<ArgK, ArgV, Bulk(TextEx), Bulk(<<49>>)>>,
     <<ArgK, ArgV, Bulk(TextPX), Integer(1)>>, <<ArgK, ArgV, Bulk(TextPX), Null>>,
     <<ArgK, ArgV, Bulk(TextNX)>>, <<ArgK, ArgV, Integer(1)>>,
     <<ArgK, ArgV, Bulk(TextEX), Integer(1), ArgV>>}
ParseReqs == {ReqGet("k1"), ReqSet("k1", "v2")}

NextParse ==
    \/ ListenerAcquire
    \/ \E h \in ConnIds : ListenerAccept(h)
    \/ \E args \in SetArgLists :
          Len(handlers[1].reqs) < SrvMaxReq /\ HandlerReadSet(1, args)
    \/ \E req \in ParseReqs :
          Len(handlers[2].reqs) < MaxReq /\ HandlerRead(2, req)
    \/ \E h \in ConnIds : HandlerReadEnd(h, "Ok")
    \/ \E h \in ConnIds : HandlerWrite(h, TRUE)

SpecParse == Init /\ [][NextParse]_vars

\* The u64 values handed to write_decimal, as decimal digits: 0, and for
\* every number of digits a u64 can have, 10^(d-1), the first d digits of
\* 2^64 - 1 and, below twenty digits, 10^d - 1.
U64Digits == 1..Len(U64MaxDigits)
U64Samples ==
    {<<0>>}
    \cup {[i \in 1..d |-> IF i = 1 THEN 1 ELSE 0] : d \in U64Digits}
    \cup {SubSeq(U64MaxDigits, 1, d) : d \in U64Digits}
    \cup {[i \in 1..d |-> 9] : d \in U64Digits \ {Len(U64MaxDigits)}}
\* The digits as ASCII.
DigitsText(ds) == [i \in 1..Len(ds) |-> 48 + ds[i]]

InitDecimal ==
    /\ InitDb
    /\ InitServer
    /\ frame = None
    /\ buf = <<>>
    /\ writeRes = NoRes
    /\ checkRes = NoRes
    /\ parseRes = NoRes
    /\ conn = NewConnection
    /\ decimal \in {[val |-> DigitsText(ds), ctx |-> c, res |-> NoRes]
                      : ds \in U64Samples, c \in {"Integer", "Bulk", "Array"}}

NextDecimal == ConnWriteDecimal

SpecDecimal == InitDecimal /\ [][NextDecimal]_vars

\* Commands of normal mode sent in subscribe mode: connection 1 subscribes
\* to c1 and then sends GET, SET, PUBLISH, PING or FOO; connection 2
\* publishes on c1.
OtherFirstReqs == {ReqSubscribe(<<"c1">>)}
OtherModeReqs == {ReqGet("k1"), ReqSet("k1", "v1"), ReqPublish("c1", "m2"),
                  ReqPing, ReqFoo}
OtherPubReqs == {ReqPublish("c1", "m1")}

NextOther ==
    \/ ListenerAcquire
    \/ \E h \in {1, 2} : ListenerAccept(h)
    \/ \E req \in OtherFirstReqs :
          handlers[1].reqs = <<>> /\ HandlerRead(1, req)
    \/ \E req \in OtherPubReqs :
          Len(handlers[2].reqs) < MaxReq /\ HandlerRead(2, req)
    \/ \E h \in ConnIds, res \in {"Ok", "Err"} : HandlerReadEnd(h, res)
    \/ \E h \in ConnIds, ok \in BOOLEAN : HandlerWrite(h, ok)
    \/ HandlerSubSteps({1}, OtherModeReqs, SubMaxReq)

SpecOther == Init /\ [][NextOther]_vars

----------------------------------------------------------------------------
(***************************************************************************)
(* Properties.                                                             *)
(***************************************************************************)

HasDeadline(k) == k \in DOMAIN entries /\ entries[k].expires_at # None
Deadline(k) == entries[k].expires_at[1]

\* C1: whenever the mutex is free, a key k is in entries with
\* expires_at = Some(t) if and only if the pair (t, k) is in expirations.
C1_ExpirationsMatchEntries ==
    /\ \A k \in Keys : HasDeadline(k) => <<Deadline(k), k>> \in expirations
    /\ \A p \in expirations : HasDeadline(p[2]) /\ Deadline(p[2]) = p[1]

\* C2: a key whose deadline the clock has passed is eventually no longer
\* stored with that passed deadline (the purge task removes it), with no
\* further call into the Db needed.
Expired(k) == HasDeadline(k) /\ Deadline(k) < now
C2_ExpiredKeyEventuallyRemoved ==
    \A k \in Keys : Expired(k) ~> ~Expired(k)

\* C3: while the last set on k was set(k, v, None), get(k) returns Some(v).
C3_GetReturnsLastSet ==
    \A k \in Keys :
        (setLog[k] # None /\ setLog[k][1].expires_at = None)
            => DbGet(entries, k) = Some(setLog[k][1].value)

\* C3 witness: a get has returned the value of a set without expiry that
\* replaced an entry of the key, while another key carries a deadline.
C3_Witness ==
    /\ ret.op = "get"
    /\ ret.val # None
    /\ setLog[ret.arg] = Some([value |-> ret.val[1], expires_at |-> None])
    /\ \E k \in Keys \ {ret.arg} : HasDeadline(k)
    /\ worker.pc = "purge"

\* C7: a key stored without deadline has no pair in expirations.
C7_NoDeadlineNoPair ==
    \A k \in Keys :
        (k \in DOMAIN entries /\ entries[k].expires_at = None)
            => \A p \in expirations : p[2] # k

\* C7 witness: the last call was a set without expiry that replaced an
\* entry with a deadline.
C7_Witness ==
    /\ ret.op = "set"
    /\ ret.val # None /\ ret.val[1] # None
    /\ entries[ret.arg].expires_at = None

\* C8: no two pairs of expirations have the same key.
C8_NoDuplicateKeys ==
    \A p \in expirations : \A q \in expirations : p[2] = q[2] => p = q

\* C8 witness: the last call was a set with a deadline that replaced an
\* entry of the same key with another deadline, and the purge task is past
\* its shutdown test, about to purge.
C8_Witness ==
    /\ ret.op = "set"
    /\ ret.val # None /\ ret.val[1] # None
    /\ HasDeadline(ret.arg)
    /\ ret.val[1][1] # Deadline(ret.arg)
    /\ worker.pc = "purge"

\* C9: shutdown starts false and, once true, is true in every later state.
C9_ShutdownMonotonic == ~shutdown /\ [][shutdown => shutdown']_vars

\* C9 witness: a set has run after shutdown_purge_task, and the purge task
\* has exited.
C9_Witness ==
    /\ shutdown
    /\ ret.op = "set"
    /\ worker.pc = "done"

\* C10: publish returns the number of receivers of the channel that were
\* alive at the send.
C10_PublishCountsLiveReceivers ==
    ret.op = "publish" => ret.val = Some(ret.live)

\* C10 witness: a publish returned 2 on a channel while the other channel
\* is in the registry with every receiver dropped.
C10_Witness ==
    /\ ret.op = "publish"
    /\ ret.val = Some(2)
    /\ \E c \in DOMAIN pub_sub : c # ret.arg /\ LiveReceivers(c) = {}

\* C4: a frame that was written and parsed back is parsed to itself.
C4_RoundTrip ==
    (frame # None /\ writeRes # NoRes /\ parseRes # NoRes)
        => /\ writeRes = Some("Ok")
           /\ parseRes[1].res = "Ok"
           /\ parseRes[1].frame = frame[1]

\* C5: check succeeds on a buffer if and only if parse succeeds on it, and
\* then both leave the cursor at the same position.
C5_CheckIffParse ==
    (checkRes # NoRes /\ parseRes # NoRes)
        => /\ (checkRes[1].res = "Ok") <=> (parseRes[1].res = "Ok")
           /\ (checkRes[1].res = "Ok" /\ parseRes[1].res = "Ok")
                 => checkRes[1].pos = parseRes[1].pos

\* C6: write_frame emits the wire format of section 4.F for a Simple,
\* Error, Integer, Bulk or Null frame.
C6_WriteFrameWireFormat ==
    (frame # None /\ frame[1].tag # "Array" /\ writeRes # NoRes)
        => /\ writeRes = Some("Ok")
           /\ buf = WireFormat(frame[1])

\* C18: once shutdown_purge_task has set the shutdown flag (the drop of the
\* DbDropGuard), the purge task eventually leaves its loop.
C18_WorkerExitsAfterShutdown == shutdown ~> (worker.pc = "done")

\* C18 witness: the purge task has exited after the flag was set and after
\* the notification of shutdown_purge_task was stored, with an entry that
\* carries a deadline still in the map.
C18_Witness ==
    /\ shutdown
    /\ worker.pc = "done"
    /\ ret.op = "shutdown"
    /\ background_task
    /\ \E k \in Keys : HasDeadline(k)

\* C19: a purge pass that returns None while shutdown is unset leaves the
\* purge task waiting for the notification, and a task waiting without a
\* deadline takes no step other than consuming the stored notification.
C19_WorkerWaitsForNotify ==
    [][/\ (/\ worker.pc = "purge"
           /\ ~shutdown
           /\ PurgeExpiredKeys(entries, expirations, shutdown, now).ret = None
           /\ worker' # worker)
          => (worker'.pc = "select" /\ worker'.when = None)
       /\ (worker.pc = "select" /\ worker.when = None /\ worker' # worker)
          => (background_task /\ ~background_task')]_vars

\* C20: one call of purge_expired_keys with shutdown unset removes from
\* expirations exactly the pairs whose deadline is not after now, removes
\* from entries exactly the keys of those pairs, and returns the smallest
\* remaining deadline, or None when no pair remains.
C20_PurgeRemovesExactlyDue ==
    (ret.op = "purge" /\ ~shutdown)
        => LET due == {p \in ret.expirations : p[1] <= now}
               dueKeys == {p[2] : p \in due}
           IN  /\ expirations = ret.expirations \ due
               /\ DOMAIN entries = DOMAIN ret.entries \ dueKeys
               /\ \A k \in DOMAIN entries : entries[k] = ret.entries[k]
               /\ \A p \in expirations : p[1] > now
               /\ IF expirations = {} THEN ret.val = None
                  ELSE /\ ret.val # None
                       /\ \E p \in expirations : p[1] = ret.val[1]
                       /\ \A p \in expirations : ret.val[1] <= p[1]

\* C20 witness: a call removed a pair whose deadline equals now together
\* with the entry of its key, kept a later pair and returned its deadline.
C20_Witness ==
    /\ ret.op = "purge"
    /\ ~shutdown
    /\ \E p \in ret.expirations :
          /\ p[1] = now
          /\ p[2] \in DOMAIN ret.entries
          /\ p[2] \notin DOMAIN entries
    /\ expirations # {}
    /\ ret.val = Some(now + 1)

\* The handler tasks that have been spawned and have not finished.
LiveHandlers == {h \in ConnIds : handlers[h].pc \notin {"idle", "done"}}

\* The permits held: the one the listener holds between acquire_owned and
\* the spawn, and the one each live handler task owns.
HeldPermits ==
    (IF listener.pc = "accept" THEN 1 ELSE 0) + Cardinality(LiveHandlers)

\* C12: in every reachable state the live handler tasks are at most
\* MAX_CONNECTIONS, the listener holds a permit whenever it is in accept,
\* and the free permits plus the permits held (by the listener and by the
\* live handler tasks, each returned once when the task finishes with Ok or
\* Err) are MAX_CONNECTIONS.
C12_AdmissionControl ==
    /\ Cardinality(LiveHandlers) <= MAX_CONNECTIONS
    /\ permits >= 0
    /\ permits + HeldPermits = MAX_CONNECTIONS

\* C12 witness: the limit is reached (no free permit, MAX_CONNECTIONS live
\* handlers) after one handler finished with Ok and one with Err.
C12_Witness ==
    /\ Cardinality(LiveHandlers) = MAX_CONNECTIONS
    /\ permits = 0
    /\ \E h \in ConnIds : handlers[h].pc = "done" /\ handlers[h].res = "Err"

\* C13: server::run has returned only in states where every spawned
\* handler task has finished.
C13_RunReturnsAfterHandlers ==
    server.pc = "returned" => LiveHandlers = {}

\* C13 witness: run has returned after handlers were spawned, all finished.
C13_Witness ==
    /\ server.pc = "returned"
    /\ Cardinality({h \in ConnIds : handlers[h].pc = "done"}) >= 2

\* C14: once the shutdown future has resolved, run eventually returns with
\* every live handler, in normal mode or in subscribe mode, finished; and
\* once the select of run has completed no handler task is spawned.
C14_ShutdownCompletes ==
    /\ server.signal ~> (server.pc = "returned" /\ LiveHandlers = {})
    /\ [][server.pc # "select" => LiveHandlers' \subseteq LiveHandlers]_vars

\* C14 witness: the shutdown future resolves while one handler is in normal
\* mode and one in subscribe mode.
C14_Witness ==
    /\ server.signal
    /\ server.pc = "select"
    /\ \E h \in ConnIds : handlers[h].pc \in {"select", "write"}
    /\ \E h \in ConnIds : handlers[h].pc \in {"sub_select", "sub_write"}

\* C17: between two attempts accept sleeps backoff seconds, 1, 2, 4, ... 64,
\* doubling after each failure, and after the failure at the 64-second tier
\* it returns the error: after n consecutive failures the backoff is 2^n and
\* the listener is still trying only while n <= 6.
C17_AcceptBacksOff ==
    listener.pc = "accept" =>
        /\ listener.backoff = 2 ^ listener.fails
        /\ listener.fails <= 6

\* The frame f answers the command req: PONG for PING, OK for SET, the
\* value or Null for GET, the count for PUBLISH, the Error frame for FOO.
Answers(req, f) ==
    CASE req.name = "ping" -> f = PingResponse
      [] req.name = "set" -> f = SetResponse
      [] req.name = "get" -> f = Null \/ f = Bulk(Utf8("v1"))
      [] req.name = "publish" -> f.tag = "Integer"
      [] req.name = "FOO" -> f = UnknownResponse
      [] OTHER -> FALSE

\* C16: within a connection in normal mode the response to request i is
\* written before request i+1 is applied: at the select every request read
\* so far has its response on the connection, during a write every request
\* but the last has and the last one's response is the frame being written,
\* and the responses stand in the order of their requests.
C16_OneCommandAtATime ==
    \A h \in ConnIds :
        LET hr == handlers[h]
        IN  /\ hr.pc = "select" =>
                  Len(hr.out) = Len(hr.reqs) /\ hr.pending = None
            /\ hr.pc = "write" =>
                  /\ Len(hr.out) = Len(hr.reqs) - 1
                  /\ hr.pending # None
                  /\ Answers(hr.reqs[Len(hr.reqs)], hr.pending[1])
            /\ hr.pc \in {"select", "write"} =>
                  \A i \in 1..Len(hr.out) :
                      Answers(hr.reqs[i], hr.out[i].frame)

\* C16 witness: a connection sent SET k1 v1 then GET k1 and has both
\* responses, OK then the value, while another connection has a response
\* being written.
C16_Witness ==
    \E h \in ConnIds, g \in ConnIds :
        /\ h # g
        /\ handlers[h].pc = "select"
        /\ handlers[h].reqs = <<ReqSet("k1", "v1"), ReqGet("k1")>>
        /\ Len(handlers[h].out) = 2
        /\ handlers[h].out[2].frame = Bulk(Utf8("v1"))
        /\ handlers[g].pc = "write"

\* C15: the response to an unknown command FOO is the Error frame
\* 'ERR unknown command 'FOO'' on the connection ("-ERR unknown command
\* 'FOO'\r\n"), the handler stays in its loop (a failed write aside), and
\* the next command on the connection is answered (SET with "+OK\r\n").
C15_UnknownCommandAnswered ==
    \A h \in ConnIds :
        LET hr == handlers[h]
        IN  \A i \in 1..Len(hr.reqs) :
                /\ (hr.reqs[i] = ReqFoo /\ i <= Len(hr.out)) =>
                      hr.out[i].bytes = WireFormat(Error(TextUnknownFoo))
                /\ (hr.reqs[i] = ReqFoo /\ i > Len(hr.out)) =>
                      hr.pc = "write" /\ hr.pending = Some(UnknownResponse)
                /\ (hr.reqs[i].name = "set" /\ i <= Len(hr.out)) =>
                      hr.out[i].bytes = WireFormat(SetResponse)

\* The payloads published in the pub/sub specification.
FanoutMsgs == {"m1", "m2"}

\* The payload of a frame [message, c, payload], as Some, or None for any
\* other frame.
MessageOn(f, c) ==
    IF \E m \in FanoutMsgs : f = MakeMessageFrame(c, m)
    THEN Some(CHOOSE m \in FanoutMsgs : f = MakeMessageFrame(c, m))
    ELSE None

\* The payloads of the message frames of channel c among the writes out of
\* a connection, in the order written, since the connection's last
\* unsubscribe from c.
RECURSIVE Received(_, _, _)
Received(out, c, acc) ==
    IF out = <<>> THEN acc
    ELSE LET f == Head(out).frame
         IN  IF \E n \in 0..MaxRx : f = MakeUnsubscribeFrame(c, n)
             THEN Received(Tail(out), c, <<>>)
             ELSE Received(Tail(out), c, acc \o MessageOn(f, c))

\* s is the end of t.
IsSuffix(s, t) ==
    /\ Len(s) <= Len(t)
    /\ \A i \in 1..Len(s) : s[i] = t[Len(t) - Len(s) + i]

\* C11: for a connection subscribed to c, the messages published to c
\* since it received the subscribe-ack are written to it as frames
\* [message, c, payload], each once and in publish order: they are, in
\* publish order, the last of the messages written so far, being written
\* and held by its receiver (where they wait to be written), and what a
\* written message frame put on the connection is the wire format of
\* [message, c, payload]
\* ("*3\r\n$7\r\nmessage\r\n$2\r\nc1\r\n$2\r\nm1\r\n").
C11_FanOutInOrder ==
    \A h \in ConnIds :
        LET hr == handlers[h]
        IN  /\ \A i \in 1..Len(hr.subs) :
                  LET c == hr.subs[i][1]
                      r == hr.subs[i][2]
                      writing == IF hr.pc = "sub_write"
                                 THEN MessageOn(hr.pending[1], c) ELSE None
                  IN  IsSuffix(sent[r],
                               Received(hr.out, c, <<>>) \o writing \o rxq[r])
            /\ \A i \in 1..Len(hr.out) :
                  (\E c \in Channels : MessageOn(hr.out[i].frame, c) # None)
                      => hr.out[i].bytes = WireFormat(hr.out[i].frame)


\* C21: Db::set wakes the purge task if and only if the call carries an
\* expiry and either expirations was empty or the new deadline is strictly
\* earlier than every deadline in expirations; the caller owes the
\* notify_one once it has released the mutex, and notify_one is a step of
\* its own that touches nothing of the State.
C21_SetNotifiesIffEarliest ==
    /\ [][\A k \in Keys, v \in Values, e \in Options(Durations) :
            Set(k, v, e) =>
              /\ (notifying' = notifying + 1) <=>
                    (/\ e # None
                     /\ \/ expirations = {}
                        \/ \A p \in expirations : now + e[1] < p[1])
              /\ notifying' \in {notifying, notifying + 1}
              /\ background_task' = background_task]_vars
    /\ [][(background_task' /\ ~background_task) =>
              /\ notifying > 0
              /\ notifying' = notifying - 1
              /\ UNCHANGED <<entries, expirations, pub_sub, shutdown>>]_vars

\* C21 witness: the last call was a set with an expiry whose deadline is
\* strictly earlier than the deadline of a pair of another key, and the
\* caller owes the notify_one.
C21_Witness ==
    /\ ret.op = "set"
    /\ notifying = 1
    /\ HasDeadline(ret.arg)
    /\ \E p \in expirations : p[2] # ret.arg /\ Deadline(ret.arg) < p[1]
    /\ ~background_task

\* The purge task is waiting in its select for a deadline not later than
\* the deadline of key k.
WaitsNoLaterThan(k) ==
    /\ worker.pc = "select"
    /\ worker.when # None
    /\ worker.when[1] <= Deadline(k)

\* C22: no lost wake-up and no stale deadline: once a set has stored key k
\* with a deadline, the purge task comes to wait for a deadline not later
\* than that of k, unless k has been purged or overwritten without
\* deadline, or the Db shut down, before.
C22_NoStaleDeadline ==
    \A k \in Keys :
        (HasDeadline(k) /\ ~shutdown)
            ~> (\/ ~HasDeadline(k)
                \/ shutdown
                \/ WaitsNoLaterThan(k))

\* C23: a set on k removes the pair of the entry it replaces and leaves the
\* pairs of the other keys alone; from then on get(k) returns the value of
\* the latest set on k as long as that set had no expiry or its deadline
\* has not come: the purge task does not remove k at the old deadline.
C23_OverwriteCancelsOldTtl ==
    /\ [][\A k \in Keys, v \in Values, e \in Options(Durations) :
            Set(k, v, e) =>
              /\ {p \in expirations' : p[2] # k}
                    = {p \in expirations : p[2] # k}
              /\ (HasDeadline(k) /\ (e = None \/ now + e[1] # Deadline(k)))
                    => <<Deadline(k), k>> \notin expirations']_vars
    /\ [](\A k \in Keys :
            (/\ setLog[k] # None
             /\ \/ setLog[k][1].expires_at = None
                \/ now < setLog[k][1].expires_at[1])
                => DbGet(entries, k) = Some(setLog[k][1].value))

\* C23 witness: the last call was a set that replaced an entry with a
\* deadline; that deadline has passed, the purge task sleeps until a later
\* one, and the key is stored with the value of the set.
C23_Witness ==
    /\ ret.op = "set"
    /\ ret.val # None /\ ret.val[1] # None
    /\ ret.val[1][1] <= now
    /\ worker.pc = "select"
    /\ worker.when[1] > now
    /\ DbGet(entries, ret.arg) = Some(setLog[ret.arg][1].value)

\* C24: the pub/sub registry only grows and only through subscribe: no step
\* removes a channel; a channel enters by a subscribe to a name that was
\* not there, with one receiver; a subscribe to a name that is there adds
\* a receiver to its sender and detaches none; and every live receiver of a
\* channel is counted by the one sender the registry holds for it.
C24_RegistryOnlyGrows ==
    /\ [][/\ DOMAIN pub_sub \subseteq DOMAIN pub_sub'
          /\ (DOMAIN pub_sub' # DOMAIN pub_sub) =>
                \E c \in Channels \ DOMAIN pub_sub :
                    /\ Subscribe(c)
                    /\ DOMAIN pub_sub' = DOMAIN pub_sub \cup {c}
                    /\ pub_sub'[c].rx_cnt = 1
          /\ \A c \in DOMAIN pub_sub :
                Subscribe(c) =>
                    /\ pub_sub'[c].rx_cnt = pub_sub[c].rx_cnt + 1
                    /\ \A r \in LiveReceivers(c) : receivers'[r] = c]_vars
    /\ [](\A c \in DOMAIN pub_sub :
            pub_sub[c].rx_cnt = Cardinality(LiveReceivers(c)))

\* C24 witness: the last call was a publish to a channel that is not in the
\* registry, while the other channel is still there after both of its
\* receivers were dropped and a key was set.
C24_Witness ==
    /\ ret.op = "publish"
    /\ ret.arg \notin DOMAIN pub_sub
    /\ ret.val = Some(0)
    /\ \E c \in DOMAIN pub_sub : pub_sub[c].rx_cnt = 0
    /\ FreeRx = RxIds
    /\ entries # <<>>

\* The payloads of the message frames of channel c among the writes out of
\* a connection, in the order written, since its last subscribe-ack or
\* unsubscribe-ack of c.
RECURSIVE ReceivedSince(_, _, _)
ReceivedSince(out, c, acc) ==
    IF out = <<>> THEN acc
    ELSE LET f == Head(out).frame
         IN  IF \E n \in 0..MaxRx : \/ f = MakeUnsubscribeFrame(c, n)
                                    \/ f = MakeSubscribeFrame(c, n)
             THEN ReceivedSince(Tail(out), c, <<>>)
             ELSE ReceivedSince(Tail(out), c, acc \o MessageOn(f, c))

\* The payloads of the message frames of channel c written or being written
\* to a connection since its latest Db::subscribe(c) (whose ack, when it is
\* still being written, has no message frame after it).
DeliveredSince(hr, c) ==
    IF hr.pc # "sub_write" THEN ReceivedSince(hr.out, c, <<>>)
    ELSE IF \E n \in 0..MaxRx : hr.pending[1] = MakeSubscribeFrame(c, n)
         THEN <<>>
         ELSE ReceivedSince(hr.out, c, <<>>) \o MessageOn(hr.pending[1], c)

\* C25: a subscriber never receives history: for a connection subscribed to
\* c, the message frames of c written to it since its latest subscription,
\* the one being written and what its receiver holds are exactly the
\* messages published to c since the Db::subscribe(c) of that subscription
\* returned, each once: nothing published before is among them, also after
\* an unsubscribe and a new subscribe.
C25_NoHistory ==
    \A h \in ConnIds :
        LET hr == handlers[h]
        IN  \A i \in 1..Len(hr.subs) :
                LET c == hr.subs[i][1]
                    r == hr.subs[i][2]
                IN  DeliveredSince(hr, c) \o Held(rxq[r]) = heard[r]

\* C25 witness: a connection subscribed to c1, was written m1, unsubscribed,
\* subscribed again and was written m2, the one message published since.
C25_Witness ==
    LET hr == handlers[1]
    IN  /\ hr.reqs = <<ReqSubscribe(<<"c1">>), ReqUnsubscribe(<<"c1">>),
                       ReqSubscribe(<<"c1">>)>>
        /\ Len(hr.out) = 5
        /\ hr.out[2].frame = MakeMessageFrame("c1", "m1")
        /\ hr.out[5].frame = MakeMessageFrame("c1", "m2")
        /\ Len(hr.subs) = 1
        /\ heard[hr.subs[1][2]] = <<"m2">>

\* C26: a slow subscriber is tolerated: when the stream of a subscription
\* is polled and its receiver reports Lagged, nothing is written for the
\* indication, the subscription and its receiver stay, and the handler
\* stays in subscribe mode, writing the oldest message its receiver still
\* holds; the messages behind it stay held.
C26_LaggedTolerated ==
    [][\A h \in ConnIds, i \in 1..MaxRx :
          (/\ HandlerSubMessage(h, i)
           /\ Head(rxq[handlers[h].subs[i][2]]) = Lagged) =>
              LET hr == handlers[h]
                  c == hr.subs[i][1]
                  r == hr.subs[i][2]
              IN  /\ handlers'[h].subs = hr.subs
                  /\ receivers'[r] = c
                  /\ pub_sub' = pub_sub
                  /\ handlers'[h].out = hr.out
                  /\ handlers'[h].pc = "sub_write"
                  /\ handlers'[h].pending
                        = Some(MakeMessageFrame(c, Held(rxq[r])[1]))
                  /\ rxq'[r] = Tail(Held(rxq[r]))]_vars

\* C26 witness: the subscriber's receiver was one message over its
\* capacity: the subscriber has been written one message since, the oldest
\* still held, one less than the capacity is held with the message that
\* overflowed last, and the subscription is in place.
C26_Witness ==
    LET hr == handlers[1]
    IN  /\ hr.pc = "sub_select"
        /\ hr.subs = <<<<"c1", 1>>>>
        /\ Len(hr.out) = 2
        /\ hr.out[2].frame = MakeMessageFrame("c1", "m1")
        /\ Len(rxq[1]) = ChannelCapacity - 1
        /\ rxq[1][ChannelCapacity - 1] = "m2"
        /\ Len(heard[1]) = ChannelCapacity + 1

\* What the removal of channel ch from the subscriptions of connection h
\* does in a step: the stream of ch and its receiver are gone, the streams
\* and receivers of the other channels and what they hold are as before,
\* and the unsubscribe-ack of ch with the number of streams left is being
\* written.
UnsubEffect(h, ch) ==
    LET hr == handlers[h]
        kept == {hr.subs[i] : i \in {j \in 1..Len(hr.subs) :
                                       hr.subs[j][1] # ch}}
        gone == {hr.subs[i][2] : i \in {j \in 1..Len(hr.subs) :
                                          hr.subs[j][1] = ch}}
    IN  /\ {handlers'[h].subs[i] : i \in 1..Len(handlers'[h].subs)} = kept
        /\ Len(handlers'[h].subs) = Cardinality(kept)
        /\ \A r \in RxIds :
              IF r \in gone THEN receivers'[r] = NoRx
              ELSE receivers'[r] = receivers[r] /\ rxq'[r] = rxq[r]
        /\ handlers'[h].pc = "sub_write"
        /\ handlers'[h].pending
              = Some(MakeUnsubscribeFrame(ch, Cardinality(kept)))

\* The names an UNSUBSCRIBE command is processed for: the listed ones, or
\* every channel the connection is subscribed to when none is listed.
UnsubNames(hr, req) ==
    IF req.chs = <<>> THEN [i \in 1..Len(hr.subs) |-> hr.subs[i][1]]
    ELSE req.chs

\* C27: UNSUBSCRIBE in subscribe mode is processed name by name, for the
\* listed names or for every subscribed channel when none is listed: each
\* name has its subscription removed (if there is one) and its
\* unsubscribe-ack written, the other subscriptions stay; and once the
\* unsubscribe-ack of c is written, no message frame of c is written to the
\* connection unless it subscribes to c again.
C27_Unsubscribe ==
    /\ [][\A h \in ConnIds, req \in UnsubModeReqs :
            HandlerSubRead(h, req) =>
              LET names == UnsubNames(handlers[h], req)
              IN  IF names = <<>>
                  THEN /\ handlers'[h].pc = "sub_select"
                       /\ handlers'[h].subs = handlers[h].subs
                       /\ handlers'[h].out = handlers[h].out
                       /\ UNCHANGED <<receivers, rxq>>
                  ELSE /\ UnsubEffect(h, names[1])
                       /\ handlers'[h].unsub = Tail(names)]_vars
    /\ [][\A h \in ConnIds :
            (HandlerSubWrite(h, TRUE) /\ handlers[h].unsub # <<>>
                /\ handlers'[h].pc # "done") =>
              /\ UnsubEffect(h, Head(handlers[h].unsub))
              /\ handlers'[h].unsub = Tail(handlers[h].unsub)]_vars
    /\ [](\A h \in ConnIds, c \in Channels :
            LET out == handlers[h].out
                written == [i \in 1..Len(out) |-> out[i].frame]
                all == IF handlers[h].pc = "sub_write"
                       THEN Append(written, handlers[h].pending[1])
                       ELSE written
            IN  \A i \in 1..Len(all) : \A j \in (i + 1)..Len(all) :
                    (/\ \E n \in 0..MaxRx : all[i] = MakeUnsubscribeFrame(c, n)
                     /\ MessageOn(all[j], c) # None)
                        => \E k \in (i + 1)..(j - 1) : \E n \in 0..MaxRx :
                              all[k] = MakeSubscribeFrame(c, n))

\* C27 witness: the subscriber of c1 and c2 sent UNSUBSCRIBE c1 and has its
\* ack with the count 1; the publisher published on c2, received by one,
\* and then on c1, received by none; the subscriber has been written the
\* message of c2 after the ack and still holds c2 alone.
C27_Witness ==
    /\ handlers[1].reqs = <<ReqSubscribe(<<"c1", "c2">>),
                            ReqUnsubscribe(<<"c1">>)>>
    /\ handlers[1].pc = "sub_select"
    /\ Len(handlers[1].out) = 4
    /\ handlers[1].out[3].frame = MakeUnsubscribeFrame("c1", 1)
    /\ handlers[1].out[4].frame = MakeMessageFrame("c2", "m1")
    /\ SubsKeys(handlers[1].subs) = <<"c2">>
    /\ handlers[2].reqs = <<ReqPublish("c2", "m1"), ReqPublish("c1", "m1")>>
    /\ Len(handlers[2].out) = 2
    /\ handlers[2].out[1].frame = PublishResponse(1)
    /\ handlers[2].out[2].frame = PublishResponse(0)

\* The frames handed to write_frame on a connection so far, the one being
\* written in subscribe mode included.
FramesOut(hr) ==
    LET written == [i \in 1..Len(hr.out) |-> hr.out[i].frame]
    IN  IF hr.pc = "sub_write" THEN Append(written, hr.pending[1])
        ELSE written

\* C28: the subscriptions of a connection hold one stream and one receiver
\* per channel name at most; the integer of a subscribe-ack or
\* unsubscribe-ack being written is the number of distinct channels the
\* connection is subscribed to after the operation; and a message
\* published once is written to the connection once at most.
C28_OneReceiverPerChannel ==
    \A h \in ConnIds :
        LET hr == handlers[h]
            keys == {hr.subs[i][1] : i \in 1..Len(hr.subs)}
        IN  /\ \A i \in 1..Len(hr.subs) : \A j \in 1..Len(hr.subs) :
                  (hr.subs[i][1] = hr.subs[j][1]
                      \/ hr.subs[i][2] = hr.subs[j][2]) => i = j
            /\ \A i \in 1..Len(hr.subs) :
                  receivers[hr.subs[i][2]] = hr.subs[i][1]
            /\ hr.pc = "sub_write" =>
                  \A c \in Channels, n \in 0..(MaxRx + 1) :
                      hr.pending[1] \in {MakeSubscribeFrame(c, n),
                                         MakeUnsubscribeFrame(c, n)}
                          => n = Cardinality(keys)
            /\ \A c \in Channels, m \in FanoutMsgs :
                  Cardinality({i \in 1..Len(FramesOut(hr)) :
                                 FramesOut(hr)[i] = MakeMessageFrame(c, m)})
                      <= 1

\* C28 witness: the connection sent SUBSCRIBE c1 twice, has two acks with
\* the count 1 and one stream, and has been written m1 once.
C28_Witness ==
    LET hr == handlers[1]
    IN  /\ Len(hr.reqs) = 2
        /\ hr.reqs[1] = ReqSubscribe(<<"c1">>)
        /\ hr.reqs[2] = ReqSubscribe(<<"c1">>)
        /\ hr.pc = "sub_select"
        /\ Len(hr.out) = 3
        /\ hr.out[1].frame = MakeSubscribeFrame("c1", 1)
        /\ hr.out[2].frame = MakeSubscribeFrame("c1", 1)
        /\ hr.out[3].frame = MakeMessageFrame("c1", "m1")
        /\ Len(hr.subs) = 1

\* A command of normal mode read in subscribe mode is handed to Unknown:
\* the Error frame naming it is the frame to write, the shared state, the
\* channels and the receivers are as before, and after the write the
\* connection is at the select of subscribe mode with the same
\* subscriptions.
SubOtherLeavesState ==
    /\ [][\A h \in ConnIds, req \in OtherModeReqs :
            HandlerSubRead(h, req) =>
              /\ handlers'[h].pc = "sub_write"
              /\ handlers'[h].pending = Some(UnknownFor(req.name))
              /\ handlers'[h].subs = handlers[h].subs
              /\ handlers'[h].out = handlers[h].out
              /\ UNCHANGED <<entries, expirations, notifying>>
              /\ UNCHANGED <<receivers, pub_sub, rxq, heard>>]_vars
    /\ [][\A h \in ConnIds, req \in OtherModeReqs :
            (/\ HandlerSubWrite(h, TRUE)
             /\ handlers[h].pending = Some(UnknownFor(req.name))) =>
              /\ handlers'[h].pc = "sub_select"
              /\ handlers'[h].subs = handlers[h].subs
              /\ handlers'[h].out[Len(handlers'[h].out)].frame
                   = UnknownFor(req.name)]_vars

\* C29: in subscribe mode a command other than SUBSCRIBE and UNSUBSCRIBE
\* (GET, SET, PUBLISH, PING, FOO) is answered with the Unknown error frame
\* on the connection ("-ERR unknown command '<name>'\r\n"), is not applied
\* to the shared state, and leaves the connection in subscribe mode with
\* its subscriptions unchanged.
C29_SubModeOtherCommand ==
    /\ SubOtherLeavesState
    /\ [][\A h \in ConnIds, req \in OtherModeReqs :
            (/\ HandlerSubWrite(h, TRUE)
             /\ handlers[h].pending = Some(UnknownFor(req.name))) =>
              handlers'[h].out[Len(handlers'[h].out)].bytes
                = WireFormat(UnknownFor(req.name))]_vars

\* The frames among the results of the read_frame calls.
FramesGot(got) == SelectSeq(got, LAMBDA g : g.res = "Some")

\* The bytes of what the peer sent that have reached the socket and gone
\* into the buffer.
Arrived(c) == SubSeq(PeerBytes(c.peer), 1,
                     Len(PeerBytes(c.peer)) - Len(c.stream))

\* b is a strict prefix of some frame's encoding and is not empty.
MidFrame(b) ==
    /\ b # <<>>
    /\ \E f \in ReadSeeds :
          /\ Len(b) < Len(WireFormat(f))
          /\ b = SubSeq(WireFormat(f), 1, Len(b))

\* C30: read_frame returns None only when the stream is at its end and the
\* buffer is empty; when the stream ends with a strict prefix of a frame
\* buffered the call fails with "connection reset by peer"; a frame is
\* returned with exactly the bytes after it kept, so that the frames sent
\* back to back come one per call, in order, none lost and none twice: the
\* frames returned are always the first ones sent, the buffer is what
\* arrived after them, and once the stream has ended every whole frame
\* sent has been returned.
C30_ReadFrame ==
    LET n == Len(FramesGot(conn.got))
        last == conn.got[Len(conn.got)]
    IN  conn.pc # "idle" =>
          /\ n <= Len(conn.peer.frames)
          /\ \A i \in 1..Len(conn.got) :
                IF i <= n
                THEN conn.got[i] = Got("Some", conn.peer.frames[i])
                ELSE i = Len(conn.got) /\ conn.pc = "done"
          /\ WireFormatAll(SubSeq(conn.peer.frames, 1, n)) \o conn.buffer
               = Arrived(conn)
          /\ (conn.pc = "done" /\ last.res = "None") =>
                /\ conn.stream = <<>> /\ conn.buffer = <<>>
                /\ n = Len(conn.peer.frames)
          /\ (conn.pc = "done" /\ last.res # "io"
                /\ MidFrame(conn.peer.tail)) =>
                /\ last.res = "reset"
                /\ n = Len(conn.peer.frames)
                /\ conn.buffer = conn.peer.tail
          /\ (conn.pc = "done" /\ last.res # "io"
                /\ conn.peer.tail = <<>>) =>
                last.res = "None"

\* C30 witness: the peer sent two different frames and part of a third and
\* closed; the calls returned the first frame, the second, and then the
\* "connection reset by peer" error with the part still buffered.
C30_Witness ==
    /\ Len(conn.peer.frames) = 2
    /\ conn.peer.frames[1] # conn.peer.frames[2]
    /\ MidFrame(conn.peer.tail)
    /\ conn.pc = "done"
    /\ conn.got = <<Got("Some", conn.peer.frames[1]),
                    Got("Some", conn.peer.frames[2]), Got("reset", Null)>>
    /\ conn.buffer = conn.peer.tail

\* The frames on the connection of h are whole: each stands with all the
\* bytes write_frame produces for it.
WholeFrames(hr) ==
    \A i \in 1..Len(hr.out) :
        /\ WriteFrame(hr.out[i].frame).res = "Ok"
        /\ hr.out[i].bytes = WriteFrame(hr.out[i].frame).bytes

\* C31: shutdown never truncates a response: a handler returns because of
\* shutdown only from the select that waits for input, in normal mode or in
\* subscribe mode, never with a frame being written; at that step every
\* frame it started to write is on the connection whole, in normal mode one
\* per request read, and the step writes nothing more; while a frame is
\* being written the handler has not observed shutdown.
C31_ShutdownNeverTruncates ==
    /\ [][\A h \in ConnIds :
            (/\ handlers[h].pc \notin {"idle", "done"}
             /\ handlers'[h].pc = "done"
             /\ handlers'[h].is_shutdown) =>
               /\ handlers[h].pc \in {"select", "sub_select"}
               /\ handlers[h].pending = None
               /\ WholeFrames(handlers[h])
               /\ handlers[h].pc = "select" =>
                     Len(handlers[h].out) = Len(handlers[h].reqs)]_vars
    /\ [](\A h \in ConnIds :
            handlers[h].pc \in {"write", "sub_write"} =>
               /\ handlers[h].pending # None
               /\ ~handlers[h].is_shutdown
               /\ WholeFrames(handlers[h]))

\* C31 witness: run has dropped notify_shutdown; the publisher has
\* returned because of shutdown from its select, after its response was
\* written, while the subscriber is still writing the message frame, which
\* the signal does not interrupt.
C31_Witness ==
    /\ SignalFired(server)
    /\ \E g \in ConnIds, k \in ConnIds :
          /\ handlers[g].pc = "sub_write"
          /\ handlers[g].pending = Some(MakeMessageFrame("c1", "m1"))
          /\ handlers[k].pc = "done" /\ handlers[k].is_shutdown

\* The argument lists of SET that fail to parse: a missing key, value or
\* number, a number that is none, an option that is neither EX nor PX, a
\* frame of the wrong kind, an argument too many.
BadSetArgLists ==
    {<<>>, <<ArgK>>, <<ArgK, ArgV, Bulk(TextEX)>>,
     <<ArgK, ArgV, Bulk(TextEX), Bulk(<<97>>)>>,
     <<ArgK, ArgV, Bulk(TextPX), Null>>, <<ArgK, ArgV, Bulk(TextNX)>>,
     <<Null, ArgV>>, <<ArgK, Array(<<>>)>>, <<ArgK, ArgV, Integer(1)>>,
     <<ArgK, ArgV, Bulk(TextEX), Integer(1), ArgV>>}

\* C32: a command that fails to parse ends its own connection only: the
\* handler returns the error, entries, expirations and pub_sub are as
\* before, its permit is returned and its drain sender dropped (the task
\* has ended), and every other handler and the listener are where they
\* were, free to go on.
C32_ParseErrorEndsOwnConnection ==
    [][\A h \in ConnIds, args \in BadSetArgLists :
         HandlerReadSet(h, args) =>
            /\ handlers'[h].pc = "done"
            /\ handlers'[h].res = "Err"
            /\ ~handlers'[h].is_shutdown
            /\ UNCHANGED <<entries, expirations, pub_sub, notifying>>
            /\ UNCHANGED <<receivers, rxq>>
            /\ permits' = permits + 1
            /\ \A g \in ConnIds \ {h} : handlers'[g] = handlers[g]
            /\ UNCHANGED <<listener, server>>]_vars

\* C32 witness: the handler of connection 1 has returned an error and the
\* shared state holds nothing of its command, the handler of connection 2
\* has read SET k1 v2 and GET k1 and answered them and is at its select,
\* and the listener has accepted connection 3 on the returned permit.
C32_Witness ==
    /\ handlers[1].pc = "done" /\ handlers[1].res = "Err"
    /\ handlers[2].pc = "select"
    /\ handlers[2].reqs = <<ReqSet("k1", "v2"), ReqGet("k1")>>
    /\ Len(handlers[2].out) = 2
    /\ handlers[2].out[2].frame = Bulk(Utf8("v2"))
    /\ handlers[3].pc = "select"
    /\ entries = [k \in {"k1"} |-> [data |-> "v2", expires_at |-> None]]

\* C33: no handler misses the shutdown signal: a handler comes to be only
\* by a step of the listener's accept, with its shutdown receiver, while
\* the signal has not fired, before or after the step; once the signal has
\* fired the listener is dropped and no handler comes to be; and a live
\* handler that waits at a select after the signal has its shutdown branch
\* ready.
C33_NoHandlerMissesShutdown ==
    /\ [][\A h \in ConnIds :
            (handlers[h].pc = "idle" /\ handlers'[h].pc # "idle") =>
               /\ ListenerAccept(h)
               /\ ~SignalFired(server)
               /\ ~SignalFired(server')]_vars
    /\ [](SignalFired(server) =>
            /\ listener.pc = "dropped"
            /\ \A h \in ConnIds :
                  AtShutdownBranch(handlers[h]) => ENABLED HandlerShutdown(h))

\* C33 witness: the signal has fired with a handler at the select of normal
\* mode and one at the select of subscribe mode, both spawned before it;
\* the listener is dropped and the third connection has no handler.
C33_Witness ==
    /\ SignalFired(server)
    /\ listener.pc = "dropped"
    /\ \E h \in ConnIds, g \in ConnIds :
          /\ handlers[h].pc = "select"
          /\ handlers[g].pc = "sub_select"
    /\ \E k \in ConnIds : handlers[k].pc = "idle"

\* write_decimal wrote the number whole: the call succeeded and what stands
\* after the tag is every decimal digit of the value, then CRLF.
DecimalWhole(d) ==
    /\ d.res[1].res = "Ok"
    /\ d.res[1].bytes = DecimalTag(d.ctx) \o d.val \o <<CR, LF>>

\* Values of at most WriteDecimalBuf digits are written whole.
DecimalWholeWhenShort ==
    (decimal.res # NoRes /\ Len(decimal.val) <= WriteDecimalBuf)
        => DecimalWhole(decimal)

\* C34: for every u64, be it the value of an Integer, the length of a Bulk
\* or the length of an Array, write_decimal succeeds and writes all the
\* decimal digits of the number followed by CRLF, also when the number has
\* more than 12 digits.
C34_WriteDecimalAnyU64 ==
    decimal.res # NoRes => DecimalWhole(decimal)
=============================================================================
